---- MODULE Spec2Model ----
(***************************************************************************)
(* Model of fan-engage-frontend.                                           *)
(* The match page (src/pages/match/[id].tsx, second MatchPage, lines       *)
(* 214-660): the projective-transform helpers invert3x3 /                  *)
(* projectPitchToImage, and the overlay renderer drawBoxes with its style  *)
(* resolver and trail builder.  The home page (src/unnamed/part_001): the  *)
(* pending-job store, pollJob, the resume effect and handleUpload.  The    *)
(* analytics panel (src/components/Analytics.tsx): the control-zone and    *)
(* possession, control-zone and momentum figures.  The radar view is not   *)
(* among the sources and is not modelled.                                  *)
(*                                                                         *)
(* JavaScript numbers are IEEE 754 doubles: the transform helpers, the     *)
(* frame clock, the overlay and the analytics figures are computed in that *)
(* arithmetic, rounding included, a decimal literal of the code (0.8,      *)
(* 0.12, 0.7) being the double it denotes.  Frame numbers, object ids,     *)
(* team ids and the pixel coordinates of the input data are integers.      *)
(***************************************************************************)
EXTENDS Integers, Sequences, FiniteSets, TLC

(* State of the transform-helper specification. *)
VARIABLES gH, gP, gInv, gFwd, gBack, gpc

(* State of MatchPage: the video element, the React state, the positions   *)
(* of the two asynchronous handlers, the overlay canvas, and the locals    *)
(* and closure values of the most recent drawBoxes call.                   *)
VARIABLES video, detections, tracksMap, homography, showPitch,
          loadingDetections, loadingAssign, assignEnv, canvas, last

(* State of the analytics panel: the props possessionData,                 *)
(* controlZoneData, momentumData and currentFrame, and the rendered panel. *)
VARIABLES possessionData, controlZoneData, momentumData, currentFrame, panel, apc

(* State of Home: localStorage["fe:pending-jobs"], whether the page is     *)
(* loaded, the React state, the handleUpload run, the two pollJob runs     *)
(* (resume effect and upload), the job statuses held by the backend and    *)
(* the matches whose analytics endpoints were requested.                   *)
VARIABLES store, page, uploading, currentStep, uploadError, activeJob,
          upload, poll, jobStatus, analyticsReq

gvars == <<gH, gP, gInv, gFwd, gBack, gpc>>

avars == <<possessionData, controlZoneData, momentumData, currentFrame, panel, apc>>

hvars == <<store, page, uploading, currentStep, uploadError, activeJob,
           upload, poll, jobStatus, analyticsReq>>

pvars == <<video, detections, tracksMap, homography, showPitch,
           loadingDetections, loadingAssign, assignEnv, canvas, last>>

vars == <<gvars, pvars, avars, hvars>>

(***************************************************************************)
(* Bounds of the model.                                                    *)
(***************************************************************************)
MaxEntry == 1
MaxRowWeight == 2
MaxCoord == 2
MaxTimeMs == 1200
MaxStepMs == 41
MaxDets == 2
MaxTeamId == 3
MaxJobs == 2
MaxSeriesLen == 3
MaxFrame == 11

(***************************************************************************)
(* Integer helpers.                                                        *)
(***************************************************************************)
Abs(x) == IF x < 0 THEN -x ELSE x

RECURSIVE Gcd(_, _)
Gcd(a, b) == IF b = 0 THEN a ELSE Gcd(b, a % b)

(***************************************************************************)
(* IEEE 754 binary64 arithmetic (the JS Number type).  A natural number of *)
(* any size is the sequence of its base-2^14 digits, lowest first, without *)
(* leading zeros (0 is the empty sequence).  A double is a record          *)
(* [kind, sign, m, e]: kind "fin" is the value sign * m * 2^e with m odd   *)
(* (or m = 0 and e = 0 for the zeros +0 and -0), kind "inf" the infinity   *)
(* of that sign, kind "nan" NaN.                                           *)
(***************************************************************************)
LIMB_BITS == 14

LIMB == 2^LIMB_BITS

RECURSIVE BFromInt(_)
BFromInt(n) == IF n = 0 THEN <<>> ELSE <<n % LIMB>> \o BFromInt(n \div LIMB)

RECURSIVE BNorm(_)
BNorm(a) ==
    IF a = <<>> THEN <<>>
    ELSE IF a[Len(a)] = 0 THEN BNorm(SubSeq(a, 1, Len(a) - 1)) ELSE a

RECURSIVE BAddC(_, _, _)
BAddC(a, b, c) ==
    IF a = <<>> /\ b = <<>> THEN (IF c = 0 THEN <<>> ELSE <<c>>)
    ELSE LET s == (IF a = <<>> THEN 0 ELSE a[1]) + (IF b = <<>> THEN 0 ELSE b[1]) + c
         IN  <<s % LIMB>> \o BAddC(IF a = <<>> THEN <<>> ELSE Tail(a),
                                   IF b = <<>> THEN <<>> ELSE Tail(b), s \div LIMB)

BAdd(a, b) == BAddC(a, b, 0)

(* a - b - c for a >= b + c, with leading zeros *)
RECURSIVE BSubC(_, _, _)
BSubC(a, b, c) ==
    IF a = <<>> THEN <<>>
    ELSE LET s == a[1] - (IF b = <<>> THEN 0 ELSE b[1]) - c
         IN  <<s % LIMB>> \o BSubC(Tail(a), IF b = <<>> THEN <<>> ELSE Tail(b),
                                   IF s < 0 THEN 1 ELSE 0)

BSub(a, b) == BNorm(BSubC(a, b, 0))

(* the sign of a - b, comparing the digits from position k down *)
RECURSIVE BCmpFrom(_, _, _)
BCmpFrom(a, b, k) ==
    IF k = 0 THEN 0
    ELSE IF a[k] < b[k] THEN -1
    ELSE IF a[k] > b[k] THEN 1
    ELSE BCmpFrom(a, b, k - 1)

BCmp(a, b) ==
    IF Len(a) < Len(b) THEN -1
    ELSE IF Len(a) > Len(b) THEN 1
    ELSE BCmpFrom(a, b, Len(a))

(* a * k + c for 0 <= k, c < 2^14 *)
RECURSIVE BMulSmall(_, _, _)
BMulSmall(a, k, c) ==
    IF a = <<>> THEN (IF c = 0 THEN <<>> ELSE <<c>>)
    ELSE LET s == a[1] * k + c
         IN  <<s % LIMB>> \o BMulSmall(Tail(a), k, s \div LIMB)

RECURSIVE BMul(_, _)
BMul(a, b) ==
    IF a = <<>> \/ b = <<>> THEN <<>>
    ELSE LET rest == BMul(a, Tail(b))
         IN  BAdd(BNorm(BMulSmall(a, b[1], 0)),
                  IF rest = <<>> THEN <<>> ELSE <<0>> \o rest)

RECURSIVE BitLenInt(_)
BitLenInt(n) == IF n = 0 THEN 0 ELSE 1 + BitLenInt(n \div 2)

BBitLen(a) == IF a = <<>> THEN 0 ELSE LIMB_BITS * (Len(a) - 1) + BitLenInt(a[Len(a)])

RECURSIVE Zeros(_)
Zeros(n) == IF n = 0 THEN <<>> ELSE <<0>> \o Zeros(n - 1)

(* a * 2^n *)
BShl(a, n) ==
    IF a = <<>> THEN <<>>
    ELSE Zeros(n \div LIMB_BITS) \o BMulSmall(a, 2^(n % LIMB_BITS), 0)

(* floor(a / k) for 0 < k <= 2^14, from the highest digit down with        *)
(* remainder r                                                             *)
RECURSIVE BDivSmallFrom(_, _, _, _)
BDivSmallFrom(a, k, pos, r) ==
    IF pos = 0 THEN <<>>
    ELSE LET x == r * LIMB + a[pos]
         IN  BDivSmallFrom(a, k, pos - 1, x % k) \o <<x \div k>>

(* floor(a / 2^n) *)
BShr(a, n) ==
    IF Len(a) <= n \div LIMB_BITS THEN <<>>
    ELSE LET hi == SubSeq(a, n \div LIMB_BITS + 1, Len(a))
         IN  BNorm(BDivSmallFrom(hi, 2^(n % LIMB_BITS), Len(hi), 0))

(* bit n of a (bit 0 is the lowest) *)
BBit(a, n) ==
    IF Len(a) <= n \div LIMB_BITS THEN 0
    ELSE (a[n \div LIMB_BITS + 1] \div 2^(n % LIMB_BITS)) % 2

(* a mod 2^n # 0 *)
BLowBits(a, n) ==
    \/ \E k \in 1..(n \div LIMB_BITS) : k <= Len(a) /\ a[k] # 0
    \/ /\ Len(a) > n \div LIMB_BITS
       /\ a[n \div LIMB_BITS + 1] % 2^(n % LIMB_BITS) # 0

(* the number of trailing zero bits of a # 0 *)
RECURSIVE TrailingZerosInt(_)
TrailingZerosInt(n) == IF n % 2 = 1 THEN 0 ELSE 1 + TrailingZerosInt(n \div 2)

RECURSIVE BTrailingZeros(_)
BTrailingZeros(a) ==
    IF a[1] = 0 THEN LIMB_BITS + BTrailingZeros(Tail(a)) ELSE TrailingZerosInt(a[1])

(* the largest digit d <= qh with b * d <= r1 *)
RECURSIVE DivFix(_, _, _)
DivFix(qh, r1, b) ==
    IF BCmp(BNorm(BMulSmall(b, qh, 0)), r1) > 0 THEN DivFix(qh - 1, r1, b) ELSE qh

(* the next quotient digit estimated from the two highest digits of the    *)
(* remainder r1, for b with a highest digit >= 2^13: at most 2 too large   *)
DigitEstimate(r1, b) ==
    LET n    == Len(b)
        top2 == (IF Len(r1) > n THEN r1[n + 1] * LIMB ELSE 0)
                + (IF Len(r1) >= n THEN r1[n] ELSE 0)
        est  == top2 \div b[n]
    IN  IF est > LIMB - 1 THEN LIMB - 1 ELSE est

(* k steps of long division in base 2^14 of r * 2^(14k) by b, for r < b:   *)
(* the quotient so far is q.  DivStep takes the remainder r1 = r * 2^14,   *)
(* DivPut the digit d of this step.                                        *)
RECURSIVE DivDigits(_, _, _, _)
DivPut(q, r1, b, k, d) ==
    DivDigits(IF q = <<>> /\ d = 0 THEN <<>> ELSE <<d>> \o q,
              BSub(r1, BNorm(BMulSmall(b, d, 0))), b, k - 1)

DivStep(q, r1, b, k) == DivPut(q, r1, b, k, DivFix(DigitEstimate(r1, b), r1, b))

DivDigits(q, r, b, k) ==
    IF k = 0 THEN <<q, r>>
    ELSE DivStep(q, IF r = <<>> THEN <<>> ELSE <<0>> \o r, b, k)

DIV_DIGITS == 4

MANT_BITS == 53
MIN_EXP == -1074
MAX_EXP == 971

DNaN == [kind |-> "nan", sign |-> 1, m |-> <<>>, e |-> 0]

DInf(s) == [kind |-> "inf", sign |-> s, m |-> <<>>, e |-> 0]

DZero(s) == [kind |-> "fin", sign |-> s, m |-> <<>>, e |-> 0]

(* the double s * q * 2^e for q <= 2^53; PackOdd takes the number z of     *)
(* trailing zero bits of q                                                 *)
PackOdd(s, q, e, z) == [kind |-> "fin", sign |-> s, m |-> BShr(q, z), e |-> e + z]

Pack(s, q, e) ==
    IF q = <<>> THEN DZero(s)
    ELSE IF BBitLen(q) + e > MAX_EXP + MANT_BITS THEN DInf(s)
    ELSE PackOdd(s, q, e, BTrailingZeros(q))

(* floor(M / 2^shift) = q rounded to nearest, ties to even, for shift > 0 *)
ShiftRound(M, shift, sticky, q) ==
    IF /\ BBit(M, shift - 1) = 1
       /\ (sticky \/ BLowBits(M, shift - 1) \/ BBit(q, 0) = 1)
    THEN BAddC(q, <<>>, 1)
    ELSE q

(* M * 2^E rounded to a multiple of 2^e1 *)
RoundAt(s, M, E, sticky, e1) ==
    IF e1 > E THEN Pack(s, ShiftRound(M, e1 - E, sticky, BShr(M, e1 - E)), e1)
    ELSE Pack(s, M, E)

(* the double nearest to s * (M * 2^E + t), ties to even, where 0 <= t < 2^E *)
(* and sticky says whether t > 0: the result is a multiple of 2^(top - 53),  *)
(* top the position of the highest bit, and of 2^-1074                       *)
RoundTop(s, M, E, sticky, top) ==
    RoundAt(s, M, E, sticky,
            IF top - MANT_BITS < MIN_EXP THEN MIN_EXP ELSE top - MANT_BITS)

Round(s, M, E, sticky) ==
    IF M = <<>> THEN DZero(s) ELSE RoundTop(s, M, E, sticky, BBitLen(M) + E)

(* the double nearest to s * (n / d) * 2^E, for naturals n and d > 0: n    *)
(* and d are brought to the same length, which is made a multiple of 14,   *)
(* and the quotient is computed to 56 binary places                        *)
RatioDigits(s, qr, E) == Round(s, qr[1], E, qr[2] # <<>>)

RatioAligned(s, a, b, E) ==
    RatioDigits(s,
                IF BCmp(a, b) >= 0 THEN DivDigits(<<1>>, BSub(a, b), b, DIV_DIGITS)
                ELSE DivDigits(<<>>, a, b, DIV_DIGITS),
                E)

AlignUp(ln, ld) == (LIMB_BITS - ((IF ln > ld THEN ln ELSE ld) % LIMB_BITS)) % LIMB_BITS

RatioLen(s, n, d, E, ln, ld) ==
    RatioAligned(s,
                 BShl(n, AlignUp(ln, ld) + (IF ld > ln THEN ld - ln ELSE 0)),
                 BShl(d, AlignUp(ln, ld) + (IF ln > ld THEN ln - ld ELSE 0)),
                 E + ln - ld - DIV_DIGITS * LIMB_BITS)

(* a quotient by 1 and a quotient of equal numbers need no long division *)
RoundRatio(s, n, d, E) ==
    IF n = <<>> THEN DZero(s)
    ELSE IF d = <<1>> THEN Round(s, n, E, FALSE)
    ELSE IF n = d THEN Round(s, <<1>>, E, FALSE)
    ELSE RatioLen(s, n, d, E, BBitLen(n), BBitLen(d))

DNum(k) == Round(IF k < 0 THEN -1 ELSE 1, BFromInt(IF k < 0 THEN -k ELSE k), 0, FALSE)

RECURSIVE BPow10(_)
BPow10(k) == IF k = 0 THEN <<1>> ELSE BMulSmall(BPow10(k - 1), 10, 0)

(* the double a decimal literal n * 10^(-k) denotes *)
DDec(n, k) ==
    RoundRatio(IF n < 0 THEN -1 ELSE 1, BFromInt(IF n < 0 THEN -n ELSE n), BPow10(k), 0)

DIsFinite(x) == x.kind = "fin"

DNeg(x) == IF x.kind = "nan" THEN x ELSE [x EXCEPT !.sign = -x.sign]

DAbs(x) == IF x.kind = "nan" THEN x ELSE [x EXCEPT !.sign = 1]

DMul(x, y) ==
    IF x.kind = "nan" \/ y.kind = "nan" THEN DNaN
    ELSE IF x.kind = "inf" \/ y.kind = "inf"
    THEN (IF (x.kind = "fin" /\ x.m = <<>>) \/ (y.kind = "fin" /\ y.m = <<>>)
          THEN DNaN ELSE DInf(x.sign * y.sign))
    ELSE Round(x.sign * y.sign, BMul(x.m, y.m), x.e + y.e, FALSE)

(* the sum of sx * mx * 2^E and sy * my * 2^E; AddDiff takes the sign c of *)
(* mx - my                                                                 *)
AddDiff(sx, sy, mx, my, E, c) ==
    IF c = 0 THEN DZero(1)
    ELSE Round(IF c > 0 THEN sx ELSE sy,
               IF c > 0 THEN BSub(mx, my) ELSE BSub(my, mx), E, FALSE)

AddMant(sx, sy, mx, my, E) ==
    IF sx = sy THEN Round(sx, BAdd(mx, my), E, FALSE)
    ELSE AddDiff(sx, sy, mx, my, E, BCmp(mx, my))

AddAligned(x, y, E) == AddMant(x.sign, y.sign, BShl(x.m, x.e - E), BShl(y.m, y.e - E), E)

(* an operand more than 56 binary places below the other does not change  *)
(* the rounded sum                                                         *)
DAdd(x, y) ==
    IF x.kind = "nan" \/ y.kind = "nan" THEN DNaN
    ELSE IF x.kind = "inf"
    THEN (IF y.kind = "inf" /\ y.sign # x.sign THEN DNaN ELSE x)
    ELSE IF y.kind = "inf" THEN y
    ELSE IF x.m = <<>> /\ y.m = <<>> THEN DZero(IF x.sign = -1 /\ y.sign = -1 THEN -1 ELSE 1)
    ELSE IF x.m = <<>> THEN y
    ELSE IF y.m = <<>> THEN x
    ELSE IF BBitLen(x.m) + x.e > BBitLen(y.m) + y.e + MANT_BITS + 3 THEN x
    ELSE IF BBitLen(y.m) + y.e > BBitLen(x.m) + x.e + MANT_BITS + 3 THEN y
    ELSE AddAligned(x, y, IF x.e < y.e THEN x.e ELSE y.e)

DSub(x, y) == DAdd(x, DNeg(y))

DDiv(x, y) ==
    IF x.kind = "nan" \/ y.kind = "nan" THEN DNaN
    ELSE IF x.kind = "inf"
    THEN (IF y.kind = "inf" THEN DNaN ELSE DInf(x.sign * y.sign))
    ELSE IF y.kind = "inf" THEN DZero(x.sign * y.sign)
    ELSE IF y.m = <<>>
    THEN (IF x.m = <<>> THEN DNaN ELSE DInf(x.sign * y.sign))
    ELSE RoundRatio(x.sign * y.sign, x.m, y.m, x.e - y.e)

(* d < 0 *)
IsNegative(d) == d.kind # "nan" /\ d.sign = -1 /\ (d.kind = "inf" \/ d.m # <<>>)

(* x < y; false when an operand is NaN; -0 and +0 are equal *)
DLt(x, y) ==
    IF x.kind = "nan" \/ y.kind = "nan" THEN FALSE ELSE IsNegative(DSub(x, y))

(* the value of a natural number n below 2^42 *)
BToInt(n) ==
    (IF Len(n) >= 1 THEN n[1] ELSE 0)
    + (IF Len(n) >= 2 THEN n[2] * LIMB ELSE 0)
    + (IF Len(n) >= 3 THEN n[3] * LIMB * LIMB ELSE 0)

FloorOf(x, v) ==
    IF x.sign = 1 THEN v
    ELSE IF x.e < 0 /\ x.m # <<>> THEN -v - 1 ELSE -v

(* Math.floor of a finite double whose floor is a 31-bit integer *)
MathFloor(x) ==
    FloorOf(x, BToInt(IF x.e >= 0 THEN BShl(x.m, x.e) ELSE BShr(x.m, -x.e)))

(* Math.min: NaN when an argument is NaN, and -0 is less than +0 *)
MathMin(x, y) ==
    IF x.kind = "nan" \/ y.kind = "nan" THEN DNaN
    ELSE IF DLt(y, x) THEN y
    ELSE IF DLt(x, y) THEN x
    ELSE IF x.sign = -1 THEN x ELSE y

(* s * (q + half/2 + rest) rounded to the nearest integer, a tie going to  *)
(* the larger one, for a natural q, a bit half and rest in [0, 1/2) given  *)
(* by whether it is not 0                                                  *)
RoundHalfUp(s, q, half, rest) ==
    Pack(s, IF half = 1 /\ (s = 1 \/ rest) THEN BAddC(q, <<>>, 1) ELSE q, 0)

(* Math.round: NaN, an infinity, a zero and an integer are returned as     *)
(* they are; a value in [-0.5, 0) gives -0                                 *)
MathRound(x) ==
    IF x.kind # "fin" \/ x.e >= 0 THEN x
    ELSE RoundHalfUp(x.sign, BShr(x.m, -x.e), BBit(x.m, -x.e - 1), BLowBits(x.m, -x.e - 1))

(***************************************************************************)
(* Projective transform.  A matrix is a 3-tuple of 3-tuples of numbers;    *)
(* the JS value null is the empty tuple.                                   *)
(***************************************************************************)
Null == <<>>

UnitX == <<DNum(1), DNum(0), DNum(0)>>
UnitY == <<DNum(0), DNum(1), DNum(0)>>

Identity3 == <<UnitX, UnitY, <<DNum(0), DNum(0), DNum(1)>> >>

(* the literals 1e-12 and 1e-9 *)
DET_EPS == DDec(1, 12)
W_EPS == DDec(1, 9)

(* invert3x3 returning the cofactor matrix without transposing it.         *)
invert3x3_cofactor(H) ==
    LET a == H[1][1]  b == H[1][2]  c == H[1][3]
        d == H[2][1]  e == H[2][2]  f == H[2][3]
        g == H[3][1]  h == H[3][2]  i == H[3][3]
        A  == DSub(DMul(e, i), DMul(f, h))
        B  == DNeg(DSub(DMul(d, i), DMul(f, g)))
        C  == DSub(DMul(d, h), DMul(e, g))
        D  == DNeg(DSub(DMul(b, i), DMul(c, h)))
        E  == DSub(DMul(a, i), DMul(c, g))
        F  == DNeg(DSub(DMul(a, h), DMul(b, g)))
        G2 == DSub(DMul(b, f), DMul(c, e))
        H3 == DNeg(DSub(DMul(a, f), DMul(c, d)))
        I2 == DSub(DMul(a, e), DMul(b, d))
        det == DAdd(DAdd(DMul(a, A), DMul(b, B)), DMul(c, C))
    IN  IF ~DIsFinite(det) \/ DLt(DAbs(det), DET_EPS)
        THEN Null
        ELSE << <<DDiv(A, det), DDiv(B, det), DDiv(C, det)>>,
                <<DDiv(D, det), DDiv(E, det), DDiv(F, det)>>,
                <<DDiv(G2, det), DDiv(H3, det), DDiv(I2, det)>> >>

(* invert3x3 without the determinant guard.                                *)
invert3x3_noGuard(H) ==
    LET a == H[1][1]  b == H[1][2]  c == H[1][3]
        d == H[2][1]  e == H[2][2]  f == H[2][3]
        g == H[3][1]  h == H[3][2]  i == H[3][3]
        A  == DSub(DMul(e, i), DMul(f, h))
        B  == DNeg(DSub(DMul(d, i), DMul(f, g)))
        C  == DSub(DMul(d, h), DMul(e, g))
        D  == DNeg(DSub(DMul(b, i), DMul(c, h)))
        E  == DSub(DMul(a, i), DMul(c, g))
        F  == DNeg(DSub(DMul(a, h), DMul(b, g)))
        G2 == DSub(DMul(b, f), DMul(c, e))
        H3 == DNeg(DSub(DMul(a, f), DMul(c, d)))
        I2 == DSub(DMul(a, e), DMul(b, d))
        det == DAdd(DAdd(DMul(a, A), DMul(b, B)), DMul(c, C))
    IN  << <<DDiv(A, det), DDiv(D, det), DDiv(G2, det)>>,
           <<DDiv(B, det), DDiv(E, det), DDiv(H3, det)>>,
           <<DDiv(C, det), DDiv(F, det), DDiv(I2, det)>> >>

invert3x3(H) ==
    LET a == H[1][1]  b == H[1][2]  c == H[1][3]
        d == H[2][1]  e == H[2][2]  f == H[2][3]
        g == H[3][1]  h == H[3][2]  i == H[3][3]
        A  == DSub(DMul(e, i), DMul(f, h))
        B  == DNeg(DSub(DMul(d, i), DMul(f, g)))
        C  == DSub(DMul(d, h), DMul(e, g))
        D  == DNeg(DSub(DMul(b, i), DMul(c, h)))
        E  == DSub(DMul(a, i), DMul(c, g))
        F  == DNeg(DSub(DMul(a, h), DMul(b, g)))
        G2 == DSub(DMul(b, f), DMul(c, e))
        H3 == DNeg(DSub(DMul(a, f), DMul(c, d)))
        I2 == DSub(DMul(a, e), DMul(b, d))
        det == DAdd(DAdd(DMul(a, A), DMul(b, B)), DMul(c, C))
    IN  IF ~DIsFinite(det) \/ DLt(DAbs(det), DET_EPS)
        THEN Null
        ELSE << <<DDiv(A, det), DDiv(D, det), DDiv(G2, det)>>,
                <<DDiv(B, det), DDiv(E, det), DDiv(H3, det)>>,
                <<DDiv(C, det), DDiv(F, det), DDiv(I2, det)>> >>

(* projectPitchToImage without the isFinite(w) test.                       *)
projectPitchToImage_noFiniteCheck(Hinv, X, Y) ==
    LET x == DAdd(DAdd(DMul(Hinv[1][1], X), DMul(Hinv[1][2], Y)), DMul(Hinv[1][3], DNum(1)))
        y == DAdd(DAdd(DMul(Hinv[2][1], X), DMul(Hinv[2][2], Y)), DMul(Hinv[2][3], DNum(1)))
        w == DAdd(DAdd(DMul(Hinv[3][1], X), DMul(Hinv[3][2], Y)), DMul(Hinv[3][3], DNum(1)))
    IN  IF DLt(DAbs(w), W_EPS)
        THEN Null
        ELSE <<DDiv(x, w), DDiv(y, w)>>

(* projectPitchToImage returning (x, y) without the homogeneous division.  *)
projectPitchToImage_noDivide(Hinv, X, Y) ==
    LET x == DAdd(DAdd(DMul(Hinv[1][1], X), DMul(Hinv[1][2], Y)), DMul(Hinv[1][3], DNum(1)))
        y == DAdd(DAdd(DMul(Hinv[2][1], X), DMul(Hinv[2][2], Y)), DMul(Hinv[2][3], DNum(1)))
        w == DAdd(DAdd(DMul(Hinv[3][1], X), DMul(Hinv[3][2], Y)), DMul(Hinv[3][3], DNum(1)))
    IN  IF ~DIsFinite(w) \/ DLt(DAbs(w), W_EPS)
        THEN Null
        ELSE <<x, y>>

projectPitchToImage(Hinv, X, Y) ==
    LET x == DAdd(DAdd(DMul(Hinv[1][1], X), DMul(Hinv[1][2], Y)), DMul(Hinv[1][3], DNum(1)))
        y == DAdd(DAdd(DMul(Hinv[2][1], X), DMul(Hinv[2][2], Y)), DMul(Hinv[2][3], DNum(1)))
        w == DAdd(DAdd(DMul(Hinv[3][1], X), DMul(Hinv[3][2], Y)), DMul(Hinv[3][3], DNum(1)))
    IN  IF ~DIsFinite(w) \/ DLt(DAbs(w), W_EPS)
        THEN Null
        ELSE <<DDiv(x, w), DDiv(y, w)>>

(***************************************************************************)
(* Style resolver.  A colour pair is [stroke, fill]; a detection is        *)
(* [frame_id, class_name, x1, y1, x2, y2, object_id] with object_id an     *)
(* integer >= 0, NullId (JS null) or UndefinedId (the field is absent from *)
(* the JSON object, JS undefined); tracksMap is a function from the        *)
(* object ids that have a track to team ids.  A property key String(id) is *)
(* represented by the id itself: the key "undefined" by UndefinedId.       *)
(***************************************************************************)
NullId == -1

UndefinedId == -2

(* Number(key) of a property key of byId, as <<n>>; Number("undefined") is *)
(* NaN, written <<>>, which is === to no value                             *)
Number(key) == IF key = UndefinedId THEN <<>> ELSE <<key>>

TEAM_COLORS ==
    (1 :> [stroke |-> "rgba(220,38,38,0.9)", fill |-> "rgba(220,38,38,0.15)"]) @@
    (2 :> [stroke |-> "rgba(37,99,235,0.9)", fill |-> "rgba(37,99,235,0.15)"])

TRAIL_WINDOW == 20

FPS == 25

(* A class name is a JS string, held as the sequence of its characters     *)
(* (one-character strings); the characters are ASCII.                      *)
STR_player == <<"p", "l", "a", "y", "e", "r">>
STR_referee == <<"r", "e", "f", "e", "r", "e", "e">>
STR_goalkeeper == <<"g", "o", "a", "l", "k", "e", "e", "p", "e", "r">>
STR_ball == <<"b", "a", "l", "l">>
STR_staff == <<"s", "t", "a", "f", "f">>
STR_Player == <<"P", "l", "a", "y", "e", "r">>
STR_PLAYER == <<"P", "L", "A", "Y", "E", "R">>
STR_Referee == <<"R", "e", "f", "e", "r", "e", "e">>
STR_GoalKeeper == <<"G", "o", "a", "l", "K", "e", "e", "p", "e", "r">>
STR_BALL == <<"B", "A", "L", "L">>

UpperCase ==
    <<"A", "B", "C", "D", "E", "F", "G", "H", "I", "J", "K", "L", "M",
      "N", "O", "P", "Q", "R", "S", "T", "U", "V", "W", "X", "Y", "Z">>

LowerCase ==
    <<"a", "b", "c", "d", "e", "f", "g", "h", "i", "j", "k", "l", "m",
      "n", "o", "p", "q", "r", "s", "t", "u", "v", "w", "x", "y", "z">>

(* String.prototype.toLowerCase: every upper-case letter is replaced by    *)
(* its lower-case letter, every other character is kept                    *)
toLowerCase(s) ==
    [k \in DOMAIN s |->
        IF \E j \in DOMAIN UpperCase : UpperCase[j] = s[k]
        THEN LowerCase[CHOOSE j \in DOMAIN UpperCase : UpperCase[j] = s[k]]
        ELSE s[k]]

getColorForClass(className) ==
    CASE toLowerCase(className) = STR_referee    -> [stroke |-> "#FFD700", fill |-> "rgba(255, 215, 0, 0.15)"]
      [] toLowerCase(className) = STR_player     -> [stroke |-> "#f87171", fill |-> "rgba(248, 113, 113, 0.15)"]
      [] toLowerCase(className) = STR_goalkeeper -> [stroke |-> "#00FFFF", fill |-> "rgba(0, 255, 255, 0.15)"]
      [] toLowerCase(className) = STR_ball       -> [stroke |-> "#FFA500", fill |-> "rgba(255, 165, 0, 0.15)"]
      [] OTHER                                 -> [stroke |-> "#60a5fa", fill |-> "rgba(96, 165, 250, 0.15)"]

(* a team id without colour falls back to the colour of team 1 *)
getStyledColors_fallbackTeam(d, tMap) ==
    IF toLowerCase(d.class_name) = STR_player /\ d.object_id # NullId
         /\ d.object_id \in DOMAIN tMap
         /\ tMap[d.object_id] # 0
    THEN (IF tMap[d.object_id] \in DOMAIN TEAM_COLORS
          THEN TEAM_COLORS[tMap[d.object_id]] ELSE TEAM_COLORS[1])
    ELSE getColorForClass(d.class_name)

getStyledColors(d, tMap) ==
    IF toLowerCase(d.class_name) = STR_player /\ d.object_id # NullId
         /\ d.object_id \in DOMAIN tMap
         /\ tMap[d.object_id] # 0
         /\ tMap[d.object_id] \in DOMAIN TEAM_COLORS
    THEN TEAM_COLORS[tMap[d.object_id]]
    ELSE getColorForClass(d.class_name)

(***************************************************************************)
(* Frame clock.  video.currentTime is held in milliseconds: timeMs stands   *)
(* for the double written timeMs/1000 in decimal.                          *)
(***************************************************************************)
(* Math.floor(video.currentTime * 25) *)
frameIndex(timeMs) == MathFloor(DMul(DDec(timeMs, 3), DNum(FPS)))

(* Array.prototype.find: <<element>> of the first match, <<>> for undefined *)
RECURSIVE findFrom(_, _, _)
findFrom(arr, Test(_), k) ==
    IF k > Len(arr) THEN <<>>
    ELSE IF Test(arr[k]) THEN <<arr[k]>>
    ELSE findFrom(arr, Test, k + 1)

find(arr, Test(_)) == findFrom(arr, Test, 1)

(* find with an exclusive upper boundary *)
findSegment_exclusiveEnd(hom, t) ==
    LET Covers(s) == t >= s.frame_start /\ t < s.frame_end
    IN  find(hom, Covers)

findSegment(hom, t) ==
    LET Covers(s) == t >= s.frame_start /\ t <= s.frame_end
    IN  find(hom, Covers)

(***************************************************************************)
(* drawBoxes.  Canvas coordinates are numbers.                             *)
(***************************************************************************)
(* the literals 0.8, 0.7 and 0.12 of lines 522, 547 and 537 *)
TRIANGLE_SCALE == DDec(8, 1)
RADIUS_X_SCALE == DDec(7, 1)
ELLIPSE_HEIGHT_SCALE == DDec(12, 2)

MapSeq(arr, F(_)) == [k \in 1..Len(arr) |-> F(arr[k])]

connections ==
    << <<"corner_top_left", "left_penalty_box_top_left">>,
       <<"left_penalty_box_top_left", "left_six_box_top_left">>,
       <<"left_six_box_top_left", "left_six_box_bottom_left">>,
       <<"left_six_box_bottom_left", "left_penalty_box_bottom_left">>,
       <<"left_penalty_box_bottom_left", "corner_bottom_left">>,
       <<"left_penalty_box_top_left", "left_penalty_box_top_right">>,
       <<"left_six_box_top_left", "left_six_box_top_right">>,
       <<"left_six_box_bottom_left", "left_six_box_bottom_right">>,
       <<"left_penalty_box_bottom_left", "left_penalty_box_bottom_right">>,
       <<"left_six_box_top_right", "left_six_box_bottom_right">>,
       <<"left_penalty_box_top_right", "left_penalty_box_center_top">>,
       <<"left_penalty_box_center_top", "left_penalty_box_center_bottom">>,
       <<"left_penalty_box_center_bottom", "left_penalty_box_bottom_right">>,
       <<"center_top", "center_circle_top">>,
       <<"center_circle_top", "center_circle_bottom">>,
       <<"center_circle_bottom", "center_bottom">>,
       <<"corner_top_left", "center_top">>,
       <<"corner_bottom_left", "center_bottom">>,
       <<"center_top", "corner_top_right">>,
       <<"center_bottom", "corner_bottom_right">>,
       <<"corner_top_right", "right_penalty_box_top_right">>,
       <<"right_penalty_box_top_right", "right_six_box_top_right">>,
       <<"right_six_box_top_right", "right_six_box_bottom_right">>,
       <<"right_six_box_bottom_right", "right_penalty_box_bottom_right">>,
       <<"right_penalty_box_bottom_right", "corner_bottom_right">>,
       <<"right_penalty_box_top_right", "right_penalty_box_top_left">>,
       <<"right_six_box_top_right", "right_six_box_top_left">>,
       <<"right_six_box_bottom_right", "right_six_box_bottom_left">>,
       <<"right_penalty_box_bottom_right", "right_penalty_box_bottom_left">>,
       <<"right_six_box_top_left", "right_six_box_bottom_left">>,
       <<"right_penalty_box_top_left", "right_penalty_box_center_top">>,
       <<"right_penalty_box_center_top", "right_penalty_box_center_bottom">>,
       <<"right_penalty_box_center_bottom", "right_penalty_box_bottom_left">> >>

(* Map.get on new Map(seg.keypoints_img.map(...)): the last keypoint of    *)
(* that name, scaled; <<>> for undefined.                                  *)
RECURSIVE keypointsGet(_, _, _, _, _)
keypointsGet(kps, name, wFactor, hFactor, k) ==
    IF k = 0 THEN <<>>
    ELSE IF kps[k].name = name
         THEN << <<DMul(DNum(kps[k].x), wFactor), DMul(DNum(kps[k].y), hFactor)>> >>
         ELSE keypointsGet(kps, name, wFactor, hFactor, k - 1)

(* the first connection with a missing endpoint ends the skeleton *)
RECURSIVE connectionEdges_abort(_, _, _, _)
connectionEdges_abort(kps, wFactor, hFactor, k) ==
    IF k > Len(connections) THEN <<>>
    ELSE LET startPoint == keypointsGet(kps, connections[k][1], wFactor, hFactor, Len(kps))
             endPoint   == keypointsGet(kps, connections[k][2], wFactor, hFactor, Len(kps))
         IN  IF startPoint # <<>> /\ endPoint # <<>>
             THEN << <<startPoint[1], endPoint[1]>> >>
                  \o connectionEdges_abort(kps, wFactor, hFactor, k + 1)
             ELSE <<>>

(* lines 466-469: the line between two keypoints that were both found *)
connectionLine(startPoint, endPoint) ==
    IF startPoint # <<>> /\ endPoint # <<>>
    THEN << <<startPoint[1], endPoint[1]>> >>
    ELSE <<>>

(* lines 459-471: one line per connection whose two keypoints are in the   *)
(* segment's keypoints_img                                                 *)
RECURSIVE connectionEdges(_, _, _, _)
connectionEdges(kps, wFactor, hFactor, k) ==
    IF k > Len(connections) THEN <<>>
    ELSE connectionLine(keypointsGet(kps, connections[k][1], wFactor, hFactor, Len(kps)),
                        keypointsGet(kps, connections[k][2], wFactor, hFactor, Len(kps)))
         \o connectionEdges(kps, wFactor, hFactor, k + 1)

NoPitch == [seg |-> <<>>, dots |-> <<>>, edges |-> <<>>]

(* the first segment is used when no segment covers the frame *)
pitchOverlay_fallbackFirst(show, hom, t, wFactor, hFactor) ==
    IF show /\ Len(hom) > 0
    THEN LET found == findSegment(hom, t)
             seg == IF found = <<>> THEN <<hom[1]>> ELSE found
         IN  IF Len(seg[1].keypoints_img) > 0
             THEN LET Dot(kp) == <<DMul(DNum(kp.x), wFactor), DMul(DNum(kp.y), hFactor)>>
                  IN  [seg   |-> seg,
                       dots  |-> MapSeq(seg[1].keypoints_img, Dot),
                       edges |-> connectionEdges(seg[1].keypoints_img, wFactor, hFactor, 1)]
             ELSE [seg |-> seg, dots |-> <<>>, edges |-> <<>>]
    ELSE NoPitch

(* lines 394-475: the on-video pitch skeleton *)
pitchOverlay(show, hom, t, wFactor, hFactor) ==
    IF show /\ Len(hom) > 0
    THEN LET seg == findSegment(hom, t)
         IN  IF seg # <<>> /\ Len(seg[1].keypoints_img) > 0
             THEN LET Dot(kp) == <<DMul(DNum(kp.x), wFactor), DMul(DNum(kp.y), hFactor)>>
                  IN  [seg   |-> seg,
                       dots  |-> MapSeq(seg[1].keypoints_img, Dot),
                       edges |-> connectionEdges(seg[1].keypoints_img, wFactor, hFactor, 1)]
             ELSE [seg |-> seg, dots |-> <<>>, edges |-> <<>>]
    ELSE NoPitch

(* lines 481-490: the points pushed to byId[id], frame by frame *)
RECURSIVE trailPoints(_, _, _, _, _, _)
trailPoints(dets, id, f, t, wFactor, hFactor) ==
    IF f > t THEN <<>>
    ELSE LET InFrame(d) == d.frame_id = f /\ d.object_id # NullId /\ d.object_id = id
             Pt(d) == [x |-> DMul(DDiv(DAdd(DNum(d.x1), DNum(d.x2)), DNum(2)), wFactor),
                       y |-> DMul(DDiv(DAdd(DNum(d.y1), DNum(d.y2)), DNum(2)), hFactor),
                       frame |-> f]
         IN  MapSeq(SelectSeq(dets, InFrame), Pt)
             \o trailPoints(dets, id, f + 1, t, wFactor, hFactor)

Max(a, b) == IF a > b THEN a ELSE b

(* the window starts one frame too early *)
buildById_wideWindow(dets, t, wFactor, hFactor) ==
    LET lo == Max(0, t - TRAIL_WINDOW - 1)
        ids == {dets[k].object_id : k \in {j \in 1..Len(dets) :
                    /\ dets[j].object_id # NullId
                    /\ dets[j].frame_id >= lo
                    /\ dets[j].frame_id <= t}}
    IN  [id \in ids |-> trailPoints(dets, id, lo, t, wFactor, hFactor)]

buildById(dets, t, wFactor, hFactor) ==
    LET lo == Max(0, t - TRAIL_WINDOW)
        ids == {dets[k].object_id : k \in {j \in 1..Len(dets) :
                    /\ dets[j].object_id # NullId
                    /\ dets[j].frame_id >= lo
                    /\ dets[j].frame_id <= t}}
    IN  [id \in ids |-> trailPoints(dets, id, lo, t, wFactor, hFactor)]

(* Object.keys(byId): integer keys in ascending order, then the key        *)
(* "undefined"                                                             *)
RECURSIVE objectKeys(_)
objectKeys(S) ==
    IF S = {} THEN <<>>
    ELSE IF S = {UndefinedId} THEN <<UndefinedId>>
    ELSE LET m == CHOOSE x \in S \ {UndefinedId} : \A y \in S \ {UndefinedId} : x <= y
         IN  <<m>> \o objectKeys(S \ {m})

(* lines 491-504: one polyline per key of byId with at least two points    *)
(* and a detection whose object_id === Number(key); the colour is that of  *)
(* the first such detection of the whole list.  The neutral colour of line *)
(* 497 is never used: line 496 has returned when no detection is found.    *)
RECURSIVE drawTrails(_, _, _, _, _)
drawTrails(keys, byId, dets, tMap, k) ==
    IF k > Len(keys) THEN <<>>
    ELSE LET id  == keys[k]
             pts == byId[id]
             HasId(d) == Number(id) # <<>> /\ d.object_id = Number(id)[1]
             det == find(dets, HasId)
             Xy(pt) == <<pt.x, pt.y>>
         IN  (IF Len(pts) < 2 \/ det = <<>>
              THEN <<>>
              ELSE << [pts |-> MapSeq(pts, Xy), stroke |-> getStyledColors(det[1], tMap).stroke] >>)
             \o drawTrails(keys, byId, dets, tMap, k + 1)

(* lines 524-531: the downward-pointing triangle of a ball, from the       *)
(* locals topY, colors, centerX and triangleSize                           *)
drawTriangle(topY, colors, centerX, triangleSize) ==
    [shape |-> "triangle",
     p1 |-> <<DSub(centerX, DDiv(triangleSize, DNum(2))), topY>>,
     p2 |-> <<DAdd(centerX, DDiv(triangleSize, DNum(2))), topY>>,
     p3 |-> <<centerX, DAdd(topY, triangleSize)>>,
     fill |-> colors.fill, stroke |-> colors.stroke]

(* lines 515-559: the marker of a detection from the locals x, y, w, h and *)
(* colors                                                                  *)
drawShape(d, colors, x, y, w, h) ==
    IF toLowerCase(d.class_name) = STR_ball
    THEN drawTriangle(y, colors, DAdd(x, DDiv(w, DNum(2))),
                      DMul(MathMin(w, h), TRIANGLE_SCALE))
    ELSE [shape |-> "ellipse",
          cx |-> DAdd(x, DDiv(w, DNum(2))),
          cy |-> DAdd(y, h),
          radiusX |-> DMul(w, RADIUS_X_SCALE),
          radiusY |-> DMul(h, ELLIPSE_HEIGHT_SCALE),
          stroke |-> colors.stroke]

(* lines 510-559: the marker of one current-frame detection *)
drawMarker(d, tMap, wFactor, hFactor) ==
    drawShape(d, getStyledColors(d, tMap),
              DMul(DNum(d.x1), wFactor),
              DMul(DNum(d.y1), hFactor),
              DMul(DSub(DNum(d.x2), DNum(d.x1)), wFactor),
              DMul(DSub(DNum(d.y2), DNum(d.y1)), hFactor))

(* the colours are resolved once, for the first current-frame detection *)
drawMarkers_sharedColors(dets, t, tMap, wFactor, hFactor) ==
    LET Current(d) == d.frame_id = t
        cur == SelectSeq(dets, Current)
    IN  [k \in 1..Len(cur) |->
            [drawMarker(cur[k], tMap, wFactor, hFactor)
                EXCEPT !.stroke = getStyledColors(cur[1], tMap).stroke]]

(* a detection whose object has no team assignment gets no marker *)
drawMarkers_teamOnly(dets, t, tMap, wFactor, hFactor) ==
    LET Assigned(d) == d.frame_id = t /\ d.object_id \in DOMAIN tMap
        Marker(d) == drawMarker(d, tMap, wFactor, hFactor)
    IN  MapSeq(SelectSeq(dets, Assigned), Marker)

(* lines 507-559: the markers of the current-frame detections, in list order *)
drawMarkers(dets, t, tMap, wFactor, hFactor) ==
    LET Current(d) == d.frame_id = t
        Marker(d) == drawMarker(d, tMap, wFactor, hFactor)
    IN  MapSeq(SelectSeq(dets, Current), Marker)

(* the label is moved already when the default baseline is exactly 10 *)
drawLabel_flipAtTen(d, wFactor, hFactor) ==
    LET x == DMul(DNum(d.x1), wFactor)
        y == DMul(DNum(d.y1), hFactor)
    IN  [text |-> IF d.object_id # NullId THEN <<"#", d.object_id>> ELSE <<>>,
         x |-> DAdd(x, DNum(2)),
         y |-> IF ~DLt(DNum(10), DSub(y, DNum(4))) THEN DAdd(y, DNum(12)) ELSE DSub(y, DNum(4))]

(* lines 561-566: the label of one current-frame detection; the text       *)
(* `#${object_id}` is <<"#", object_id>> and the empty text is <<>>.       *)
fillText(d, x, y) ==
    [text |-> IF d.object_id # NullId THEN <<"#", d.object_id>> ELSE <<>>,
     x |-> DAdd(x, DNum(2)),
     y |-> IF DLt(DSub(y, DNum(4)), DNum(10)) THEN DAdd(y, DNum(12)) ELSE DSub(y, DNum(4))]

drawLabel(d, wFactor, hFactor) ==
    fillText(d, DMul(DNum(d.x1), wFactor), DMul(DNum(d.y1), hFactor))

(* drawBoxes with the values its closure reads: env is                     *)
(* [detections, tracksMap, homography, showPitch]; v is the video element. *)
(* The result holds the canvas content and the locals t, seg and byId.     *)
(* The locals of drawBoxes are handed on as parameters: drawBoxes computes *)
(* t, wFactor and hFactor (lines 389-391, canvas.width and canvas.height   *)
(* being video.clientWidth and video.clientHeight), drawOverlay the pitch   *)
(* skeleton and byId, drawLayers the rest.                                 *)
drawLayers(env, t, wFactor, hFactor, pitch, byId) ==
    IF Len(env.detections) = 0
    THEN [t |-> t, seg |-> pitch.seg, byId |-> byId,
          canvas |-> [dots |-> pitch.dots, edges |-> pitch.edges,
                      trails |-> <<>>, markers |-> <<>>, labels |-> <<>>]]
    ELSE LET Current(d) == d.frame_id = t
             Label(d) == drawLabel(d, wFactor, hFactor)
         IN  [t |-> t, seg |-> pitch.seg, byId |-> byId,
              canvas |-> [dots |-> pitch.dots, edges |-> pitch.edges,
                          trails |-> drawTrails(objectKeys(DOMAIN byId), byId, env.detections,
                                                env.tracksMap, 1),
                          markers |-> drawMarkers(env.detections, t, env.tracksMap,
                                                  wFactor, hFactor),
                          labels |-> MapSeq(SelectSeq(env.detections, Current), Label)]]

drawOverlay(env, t, wFactor, hFactor) ==
    drawLayers(env, t, wFactor, hFactor,
               pitchOverlay(env.showPitch, env.homography, t, wFactor, hFactor),
               buildById(env.detections, t, wFactor, hFactor))

drawBoxes(v, env) ==
    drawOverlay(env, frameIndex(v.currentTime),
                DDiv(DNum(v.clientWidth),
                     DNum(IF v.videoWidth # 0 THEN v.videoWidth ELSE v.clientWidth)),
                DDiv(DNum(v.clientHeight),
                     DNum(IF v.videoHeight # 0 THEN v.videoHeight ELSE v.clientHeight)))

(***************************************************************************)
(* MatchPage: state after construction and event handlers.                 *)
(***************************************************************************)
CLIENT_WIDTH == 960

NoTracks == [id \in {} |-> 0]

BlankCanvas == [dots |-> <<>>, edges |-> <<>>, trails |-> <<>>, markers |-> <<>>, labels |-> <<>>]

Env(dets, tMap, hom, show) ==
    [detections |-> dets, tracksMap |-> tMap, homography |-> hom, showPitch |-> show]

(* the values read by the handlers created in the current render *)
CurrentEnv == Env(detections, tracksMap, homography, showPitch)

(* the video element before its metadata is known: videoWidth and         *)
(* videoHeight are 0, so both scale factors are 1 whatever the layout size *)
UnloadedVideo ==
    [currentTime |-> 0, videoWidth |-> 0, videoHeight |-> 0,
     clientWidth |-> CLIENT_WIDTH, clientHeight |-> 150]

GeomIdle ==
    /\ gH = Identity3
    /\ gP = <<0, 0>>
    /\ gInv = Null
    /\ gFwd = Null
    /\ gBack = Null
    /\ gpc = "idle"

PageIdle ==
    /\ video = UnloadedVideo
    /\ detections = <<>>
    /\ tracksMap = NoTracks
    /\ homography = <<>>
    /\ showPitch = FALSE
    /\ loadingDetections = FALSE
    /\ loadingAssign = FALSE
    /\ assignEnv = Env(<<>>, NoTracks, <<>>, FALSE)
    /\ canvas = BlankCanvas
    /\ last = <<>>

(* the analytics panel without data: both figures are 0 *)
ZeroStats == [team1 |-> DNum(0), team2 |-> DNum(0)]

StatsIdle ==
    /\ possessionData = <<>>
    /\ controlZoneData = <<>>
    /\ momentumData = <<>>
    /\ currentFrame = 0
    /\ panel = <<>>
    /\ apc = "idle"

(* Home before the page is loaded for the first time: nothing stored, no   *)
(* job known to the backend.  A SavedJob or null is a sequence of at most  *)
(* one job; the empty string is <<>> in currentStep.                       *)
IdlePoll == [pc |-> "idle", job |-> <<>>, s |-> "none"]

IdleUpload == [pc |-> "idle", match_id |-> 0]

HomeIdle ==
    /\ store = <<>>
    /\ page = "closed"
    /\ uploading = FALSE
    /\ currentStep = <<>>
    /\ uploadError = ""
    /\ activeJob = <<>>
    /\ upload = IdleUpload
    /\ poll = [who \in {"resume", "upload"} |-> IdlePoll]
    /\ jobStatus = [j \in 1..MaxJobs |-> "none"]
    /\ analyticsReq = {}

(* line 385, ctx.clearRect(0, 0, canvas.width, canvas.height): nothing of  *)
(* the surface c is left                                                   *)
clearRect_keepTrails(c) == [BlankCanvas EXCEPT !.trails = c.trails]

clearRect_none(c) == c

clearRect(c) == BlankCanvas

(* the drawing calls of lines 394-566 add to what the surface holds *)
paint(c, drawn) ==
    [dots    |-> c.dots \o drawn.dots,
     edges   |-> c.edges \o drawn.edges,
     trails  |-> c.trails \o drawn.trails,
     markers |-> c.markers \o drawn.markers,
     labels  |-> c.labels \o drawn.labels]

(* one call of drawBoxes on video element v with closure values env, on    *)
(* the canvas of the page                                                  *)
Drawn(r, v, env) ==
    /\ canvas' = paint(clearRect(canvas), r.canvas)
    /\ last' = << [t |-> r.t, seg |-> r.seg, byId |-> r.byId, env |-> env, video |-> v] >>

Draw(v, env) == Drawn(drawBoxes(v, env), v, env)

(* video.clientHeight of the element laid out CLIENT_WIDTH px wide with the *)
(* aspect ratio of the native size: the layout height rounded to the       *)
(* nearest integer                                                         *)
layoutHeight(size) == (2 * CLIENT_WIDTH * size[2] + size[1]) \div (2 * size[1])

(* onLoadedMetadata={drawBoxes} *)
LoadedMetadata(sizes) ==
    /\ video.videoWidth = 0
    /\ \E size \in sizes :
          /\ video' = [video EXCEPT !.videoWidth = size[1], !.videoHeight = size[2],
                                    !.clientHeight = layoutHeight(size)]
          /\ Draw(video', CurrentEnv)
    /\ UNCHANGED <<detections, tracksMap, homography, showPitch,
                   loadingDetections, loadingAssign, assignEnv>>

(* onTimeUpdate={drawBoxes} *)
TimeUpdate(times) ==
    /\ video.videoWidth # 0
    /\ \E ms \in times :
          /\ video' = [video EXCEPT !.currentTime = ms]
          /\ Draw(video', CurrentEnv)
    /\ UNCHANGED <<detections, tracksMap, homography, showPitch,
                   loadingDetections, loadingAssign, assignEnv>>

(* onChange of "Show Pitch Lines": setShowPitch(e.target.checked);         *)
(* drawBoxes() -- the drawBoxes of the render in which the handler was     *)
(* created, which reads the showPitch of that render.                      *)
TogglePitch ==
    /\ showPitch' = ~showPitch
    /\ Draw(video, CurrentEnv)
    /\ UNCHANGED <<video, detections, tracksMap, homography,
                   loadingDetections, loadingAssign, assignEnv>>

(* loadHomography: the response arrives; setHomography only if r.ok *)
LoadHomography(segLists) ==
    /\ \E ok \in BOOLEAN : \E data \in segLists :
          homography' = IF ok THEN data ELSE homography
    /\ UNCHANGED <<video, detections, tracksMap, showPitch,
                   loadingDetections, loadingAssign, assignEnv, canvas, last>>

(* handleRunDetection up to its first await *)
RunDetectionClick ==
    /\ ~loadingDetections
    /\ loadingDetections' = TRUE
    /\ UNCHANGED <<video, detections, tracksMap, homography, showPitch,
                   loadingAssign, assignEnv, canvas, last>>

(* handleRunDetection after the awaits: setDetections(data), or the catch  *)
(* branch when a fetch or res.json() rejects; finally the flag is reset.   *)
RunDetectionDone(detLists) ==
    /\ loadingDetections
    /\ \E ok \in BOOLEAN : \E data \in detLists :
          detections' = IF ok THEN data ELSE detections
    /\ loadingDetections' = FALSE
    /\ UNCHANGED <<video, tracksMap, homography, showPitch,
                   loadingAssign, assignEnv, canvas, last>>

(* rows.forEach(t => { map[t.object_id] = t.team_id; }) *)
RECURSIVE tracksToMap(_, _)
tracksToMap(rows, k) ==
    IF k = 0 THEN NoTracks
    ELSE LET m == tracksToMap(rows, k - 1)
         IN  [id \in DOMAIN m \cup {rows[k].object_id} |->
                 IF id = rows[k].object_id THEN rows[k].team_id ELSE m[id]]

(* "Assign Teams" onClick up to its first await; the handler keeps the     *)
(* closure of the render it was created in.                                *)
AssignClick ==
    /\ ~loadingAssign
    /\ loadingAssign' = TRUE
    /\ assignEnv' = CurrentEnv
    /\ UNCHANGED <<video, detections, tracksMap, homography, showPitch,
                   loadingDetections, canvas, last>>

(* "Assign Teams" onClick after the awaits: when assignTeams returned ok,  *)
(* setTracksMap(map) and drawBoxes() of the captured render.               *)
AssignDone(trackLists) ==
    /\ loadingAssign
    /\ \E ok \in BOOLEAN : \E rows \in trackLists :
          IF ok
          THEN /\ tracksMap' = tracksToMap(rows, Len(rows))
               /\ Draw(video, assignEnv)
          ELSE UNCHANGED <<tracksMap, canvas, last>>
    /\ loadingAssign' = FALSE
    /\ assignEnv' = Env(<<>>, NoTracks, <<>>, FALSE)
    /\ UNCHANGED <<video, detections, homography, showPitch, loadingDetections>>

(***************************************************************************)
(* Inputs of the transform: integer-valued matrices whose rows have        *)
(* entries in -MaxEntry..MaxEntry and absolute row sum <= MaxRowWeight,    *)
(* matrices of decimal literals as a homography JSON holds them, a few     *)
(* matrices with tiny or non-finite entries (JSON.parse reads 1e999 as     *)
(* Infinity), and integer pixel points.                                    *)
(***************************************************************************)
IntRows ==
    {<<DNum(r[1]), DNum(r[2]), DNum(r[3])>> :
        r \in {q \in (-MaxEntry..MaxEntry) \X (-MaxEntry..MaxEntry) \X (-MaxEntry..MaxEntry) :
                  Abs(q[1]) + Abs(q[2]) + Abs(q[3]) <= MaxRowWeight}}

IntMatrices == IntRows \X IntRows \X IntRows

(* the row [n1/10, n2/10, n3/10] of one-decimal literals *)
TenthsRow(n1, n2, n3) == <<DDec(n1, 1), DDec(n2, 1), DDec(n3, 1)>>

(* two identical rows; third row the sum of the first two; two regular     *)
(* matrices, the second with a perspective row                             *)
DecimalMatrices ==
    { <<TenthsRow(-164, -132, -115), TenthsRow(-164, -132, -115), TenthsRow(-163, 38, 156)>>,
      <<TenthsRow(-224, 212, -141), TenthsRow(-224, 212, -141), TenthsRow(193, 226, 124)>>,
      <<TenthsRow(-252, 164, 140), TenthsRow(-188, -284, -84), TenthsRow(-440, -120, 56)>>,
      <<TenthsRow(244, -268, 164), TenthsRow(220, -28, -276), TenthsRow(464, -296, -112)>>,
      <<TenthsRow(12, 1, 50), TenthsRow(3, 9, 20), TenthsRow(0, 0, 10)>>,
      <<TenthsRow(12, 1, 50), TenthsRow(3, 9, 20), <<DDec(1, 3), DDec(2, 3), DNum(1)>> >> }

SpecialMatrices ==
    { << <<DNum(0), DNum(0), DNum(1)>>, <<DNum(0), DNum(0), DNum(1)>>,
         <<DNum(0), DNum(0), DDec(5, 10)>> >>,
      << <<DNum(0), DNum(0), DNum(1)>>, <<DNum(0), DNum(0), DNum(2)>>,
         <<DNum(0), DNum(0), DDec(1, 9)>> >>,
      <<UnitX, UnitY, <<DNum(0), DNum(0), DInf(1)>> >>,
      <<UnitX, UnitY, <<DInf(-1), DNum(0), DNum(1)>> >>,
      <<UnitX, UnitY, <<DNum(0), DNum(0), DNaN>> >> }

GeomMatrices == IntMatrices \cup DecimalMatrices \cup SpecialMatrices

GeomPoints == (0..MaxCoord) \X (0..MaxCoord)

(***************************************************************************)
(* Specification of the transform helpers: pick H, invert it, project a    *)
(* point with H, project the image back with the inverse.                  *)
(***************************************************************************)
GeomInit ==
    /\ PageIdle
    /\ StatsIdle /\ HomeIdle
    /\ gH \in GeomMatrices
    /\ gP = <<0, 0>>
    /\ gInv = Null
    /\ gFwd = Null
    /\ gBack = Null
    /\ gpc = "start"

GeomInvert ==
    /\ gpc = "start"
    /\ gInv' = invert3x3(gH)
    /\ gpc' = "inverted"
    /\ UNCHANGED <<gH, gP, gFwd, gBack>>

GeomForward ==
    /\ gpc = "inverted"
    /\ \E P \in GeomPoints :
          /\ gP' = P
          /\ gFwd' = projectPitchToImage(gH, DNum(P[1]), DNum(P[2]))
    /\ gpc' = "fwd"
    /\ UNCHANGED <<gH, gInv, gBack>>

GeomBack ==
    /\ gpc = "fwd"
    /\ gInv # Null
    /\ gFwd # Null
    /\ gBack' = projectPitchToImage(gInv, gFwd[1], gFwd[2])
    /\ gpc' = "back"
    /\ UNCHANGED <<gH, gP, gInv, gFwd>>

GeomNext ==
    (GeomInvert \/ GeomForward \/ GeomBack) /\ UNCHANGED <<pvars, avars, hvars>>

SpecGeom == GeomInit /\ [][GeomNext]_vars

(***************************************************************************)
(* Bounded inputs of the page.                                             *)
(***************************************************************************)
(* laid out 960 wide, an 854x480 video is 539.58 high: clientHeight 540 *)
NativeSizes == {<<1920, 1080>>, <<960, 540>>, <<854, 480>>}

(* native sizes of the draw specification: laid out 960 wide the second is *)
(* 280 high, and neither scale factor is a binary fraction                 *)
DrawSizes == {<<1920, 1080>>, <<3771, 1100>>}

Det(f, c, id, x1, y1, x2, y2) ==
    [frame_id |-> f, class_name |-> c, object_id |-> id,
     x1 |-> x1, y1 |-> y1, x2 |-> x2, y2 |-> y2]

SeqsUpTo(S, n) == UNION {[1..k -> S] : k \in 0..n}

(* detections of the draw specification: object 7 at the edges of the      *)
(* trail window of frame 50 (and once under another class, in a box whose  *)
(* label sits exactly 10 px from the top at half scale; and once in a box  *)
(* whose top is 55 * (280 / 1100) = 13.999999999999998 on the canvas of a  *)
(* 3771 x 1100 video), a ball without object id near the top of the        *)
(* picture, a second object in a tall box near the top, and a detection    *)
(* whose object_id field is absent.                                        *)
DetPool ==
    { Det(50, STR_player,     7,      100, 200, 140, 300),
      Det(50, STR_player,     7,      100,  55, 140, 155),
      Det(30, STR_player,     7,      300, 220, 350, 330),
      Det(29, STR_player,     7,      500, 240, 540, 340),
      Det(49, STR_goalkeeper, 7,      700,  28, 760, 148),
      Det(50, STR_BALL,       NullId, 820,  10, 840,  26),
      Det(50, STR_referee,    8,      900,  20, 950, 140),
      Det(50, STR_player, UndefinedId, 400, 300, 440, 420) }

DrawDetLists == SeqsUpTo(DetPool, MaxDets)

DrawMaps ==
    { NoTracks, (7 :> 1), (7 :> 2) @@ (8 :> 1) }

Kp(n, x, y) == [name |-> n, x |-> x, y |-> y]

SegH(a, b, H, kps) == [frame_start |-> a, frame_end |-> b, H |-> H, keypoints_img |-> kps]

Seg(a, b, kps) == SegH(a, b, Identity3, kps)

(* a matrix of rank 2: its determinant is 0 *)
SingularH == <<UnitX, UnitY, <<DNum(1), DNum(1), DNum(0)>> >>

KpsLeft ==
    << Kp("corner_top_left", 100, 80), Kp("left_penalty_box_top_left", 100, 300),
       Kp("center_top", 900, 80), Kp("corner_top_left", 120, 90) >>

KpsRight ==
    << Kp("corner_top_right", 1800, 80), Kp("center_top", 900, 80),
       Kp("center_circle_top", 900, 400) >>

DrawSegLists ==
    { <<>>,
      << Seg(0, 99, KpsLeft), Seg(100, 199, KpsRight) >>,
      << Seg(40, 120, KpsRight), Seg(0, 99, KpsLeft) >>,
      << SegH(100, 100, SingularH, KpsLeft), Seg(0, 49, <<>>) >> }

SeekTimes == {1960, 2000, 3960, 4000}

StyleClasses ==
    {STR_player, STR_Player, STR_PLAYER, STR_referee, STR_Referee, STR_goalkeeper,
     STR_GoalKeeper, STR_ball, STR_BALL, STR_staff}

StyleIds == {NullId, 0, 7}

StyleDetLists == { <<Det(0, c, id, 100, 200, 140, 300)>> : c \in StyleClasses, id \in StyleIds }

Track(id, team) == [object_id |-> id, team_id |-> team]

StyleMaps == UNION {[ids -> 0..MaxTeamId] : ids \in SUBSET {0, 7}}

(***************************************************************************)
(* Specifications.                                                         *)
(***************************************************************************)
(* the frame clock over every millisecond of playback *)
ClockInit == GeomIdle /\ PageIdle /\ StatsIdle /\ HomeIdle

(* playback advances by at most MaxStepMs between two timeupdate events *)
PlaybackTimes ==
    {ms \in 0..MaxTimeMs : ms > video.currentTime /\ ms <= video.currentTime + MaxStepMs}

ClockNext ==
    (LoadedMetadata(NativeSizes) \/ TimeUpdate(PlaybackTimes))
    /\ UNCHANGED <<gvars, avars, hvars>>

SpecClock == ClockInit /\ [][ClockNext]_vars

(* drawBoxes over bounded detections, track maps and homography segments *)
DrawInit ==
    /\ GeomIdle
    /\ StatsIdle /\ HomeIdle
    /\ video = UnloadedVideo
    /\ detections \in DrawDetLists
    /\ tracksMap \in DrawMaps
    /\ homography \in DrawSegLists
    /\ showPitch \in BOOLEAN
    /\ loadingDetections = FALSE
    /\ loadingAssign = FALSE
    /\ assignEnv = Env(<<>>, NoTracks, <<>>, FALSE)
    /\ canvas = BlankCanvas
    /\ last = <<>>

(* forward seeks to the frames 49, 50, 99 and 100 *)
ForwardSeeks == {ms \in SeekTimes : ms > video.currentTime}

DrawNext ==
    (LoadedMetadata(DrawSizes) \/ TimeUpdate(ForwardSeeks))
    /\ UNCHANGED <<gvars, avars, hvars>>

SpecDraw == DrawInit /\ [][DrawNext]_vars

(* the style resolver over every class, object id and track map *)
StyleInit ==
    /\ GeomIdle
    /\ StatsIdle /\ HomeIdle
    /\ video = UnloadedVideo
    /\ detections \in StyleDetLists
    /\ tracksMap \in StyleMaps
    /\ homography = <<>>
    /\ showPitch = FALSE
    /\ loadingDetections = FALSE
    /\ loadingAssign = FALSE
    /\ assignEnv = Env(<<>>, NoTracks, <<>>, FALSE)
    /\ canvas = BlankCanvas
    /\ last = <<>>

StyleNext == LoadedMetadata(NativeSizes) /\ UNCHANGED <<gvars, avars, hvars>>

SpecStyle == StyleInit /\ [][StyleNext]_vars

(* the page from its construction *)
PageDetLists ==
    { << Det(50, STR_player, 7, 100, 200, 140, 300) >>,
      << Det(30, STR_player, 7, 300, 220, 350, 330), Det(50, STR_player, 7, 100, 200, 140, 300) >> }

PageTrackLists == { <<Track(7, 1)>> }

PageSegLists == { << Seg(0, 99, KpsLeft) >> }

PageTimes == {0, 2000}

Init == GeomIdle /\ PageIdle /\ StatsIdle /\ HomeIdle

Next ==
    ( \/ LoadedMetadata({<<1920, 1080>>})
      \/ TimeUpdate(PageTimes)
      \/ TogglePitch
      \/ LoadHomography(PageSegLists)
      \/ RunDetectionClick
      \/ RunDetectionDone(PageDetLists)
      \/ AssignClick
      \/ AssignDone(PageTrackLists) ) /\ UNCHANGED <<gvars, avars, hvars>>

Spec == Init /\ [][Next]_vars

(***************************************************************************)
(* Home (src/unnamed/part_001).  A SavedJob is [job_id, match_id, title];  *)
(* the backend gives match number m the pipeline job number m.  A status   *)
(* of jobStatus is "none" (no such match), "uploaded" (the match exists,   *)
(* no job yet) or a status reported by GET /jobs/{id}.  The texts of       *)
(* currentStep are written without their ellipsis character.               *)
(***************************************************************************)
Job(m) == [job_id |-> m, match_id |-> m, title |-> "Match"]

(* lines 10-12: the stored array, as saveJobs wrote it *)
loadJobs(st) == st

(* lines 16-20 *)
upsertJob(st, j) ==
    LET Other(x) == x.job_id # j.job_id
    IN  Append(SelectSeq(st, Other), j)

(* lines 21-23 *)
removeJob(st, job_id) ==
    LET Other(x) == x.job_id # job_id
    IN  SelectSeq(st, Other)

(* lines 41 and 76, pending[pending.length - 1]: the job the banner and    *)
(* the resume effect take, as a sequence of one job                        *)
latestJob_first(pending) == IF Len(pending) = 0 THEN <<>> ELSE <<pending[1]>>

latestJob(pending) == IF Len(pending) = 0 THEN <<>> ELSE <<pending[Len(pending)]>>

(* lines 55-67: the branch pollJob takes on a reported status *)
pollBranch_runningDone(status) ==
    IF status \in {"finished", "running"} THEN "finished"
    ELSE IF status \in {"failed", "stopped", "canceled"} THEN "failed"
    ELSE "sleep"

pollBranch_canceledIgnored(status) ==
    IF status = "finished" THEN "finished"
    ELSE IF status \in {"failed", "stopped"} THEN "failed"
    ELSE "sleep"

pollBranch(status) ==
    IF status = "finished" THEN "finished"
    ELSE IF status \in {"failed", "stopped", "canceled"} THEN "failed"
    ELSE "sleep"

(* the progress the backend reports with a status; -1 when the response    *)
(* has no numeric progress                                                 *)
ProgressOf(status) ==
    IF status = "running" THEN 50 ELSE IF status = "finished" THEN 100 ELSE -1

(* lines 51-53: `${pct} — ${note}` as <<pct, note>>, with pct the number   *)
(* before the % sign and note the status (the response carries no note)    *)
stepText(status) ==
    << IF ProgressOf(status) >= 0 THEN ProgressOf(status) ELSE 0, status >>

(* lines 139-143, catch and finally of handleUpload: the values of         *)
(* uploading and uploadError when the run ends, failed with message msg or *)
(* not failed                                                              *)
handleUploadExit_noFinally(failed, msg) ==
    [uploading |-> failed, uploadError |-> IF failed THEN msg ELSE uploadError]

handleUploadExit(failed, msg) ==
    [uploading |-> FALSE, uploadError |-> IF failed THEN msg ELSE uploadError]

(* the match numbers the backend has not used yet *)
FreeMatches == {m \in 1..MaxJobs : jobStatus[m] = "none"}

(* the page is loaded: React state is initial, the effects of lines 39-42   *)
(* and 71-93 run                                                           *)
Load ==
    /\ page = "closed"
    /\ page' = "open"
    /\ activeJob' = latestJob(loadJobs(store))
    /\ poll' = [poll EXCEPT !["resume"] =
                   IF Len(loadJobs(store)) = 0 THEN IdlePoll
                   ELSE [pc |-> "fetch", job |-> latestJob(loadJobs(store)), s |-> "none"]]
    /\ UNCHANGED <<store, uploading, currentStep, uploadError, upload, jobStatus, analyticsReq>>

(* the page is left or reloaded: its state and its pending promises are    *)
(* gone, localStorage stays                                                *)
Leave ==
    /\ page = "open"
    /\ page' = "closed"
    /\ uploading' = FALSE
    /\ currentStep' = <<>>
    /\ uploadError' = ""
    /\ activeJob' = <<>>
    /\ upload' = IdleUpload
    /\ poll' = [who \in {"resume", "upload"} |-> IdlePoll]
    /\ UNCHANGED <<store, jobStatus, analyticsReq>>

(* lines 96-110: the form is submitted (the button is disabled while       *)
(* uploading, line 198)                                                    *)
UploadSubmit ==
    /\ page = "open"
    /\ ~uploading
    /\ FreeMatches # {}
    /\ uploading' = TRUE
    /\ currentStep' = <<"Uploading video...">>
    /\ uploadError' = ""
    /\ upload' = [pc |-> "ingest", match_id |-> 0]
    /\ UNCHANGED <<store, page, activeJob, poll, jobStatus, analyticsReq>>

(* handleUpload ends: catch (when failed) and finally *)
UploadEnds(failed, msg) ==
    /\ uploading' = handleUploadExit(failed, msg).uploading
    /\ uploadError' = handleUploadExit(failed, msg).uploadError
    /\ upload' = IdleUpload

(* lines 107-117: the response of POST /ingest/video *)
IngestDone ==
    /\ upload.pc = "ingest"
    /\ \E r \in {"ok", "rejected", "network error"} :
          IF r = "ok"
          THEN LET m == CHOOSE x \in FreeMatches : \A y \in FreeMatches : x <= y
               IN  /\ jobStatus' = [jobStatus EXCEPT ![m] = "uploaded"]
                   /\ currentStep' = <<"Queued">>
                   /\ upload' = [pc |-> "enqueue", match_id |-> m]
                   /\ UNCHANGED <<uploading, uploadError>>
          ELSE /\ UploadEnds(TRUE, IF r = "rejected" THEN "Failed to upload video"
                                   ELSE "Failed to fetch")
               /\ UNCHANGED <<jobStatus, currentStep>>
    /\ UNCHANGED <<store, page, activeJob, poll, analyticsReq>>

(* lines 117-125: the response of POST /jobs/pipeline; on success the job  *)
(* is stored and pollJob sends its first status request                    *)
EnqueueDone ==
    /\ upload.pc = "enqueue"
    /\ \E r \in {"ok", "rejected", "network error"} :
          IF r = "ok"
          THEN /\ jobStatus' = [jobStatus EXCEPT ![upload.match_id] = "queued"]
               /\ store' = upsertJob(store, Job(upload.match_id))
               /\ poll' = [poll EXCEPT !["upload"] =
                              [pc |-> "fetch", job |-> <<Job(upload.match_id)>>, s |-> "none"]]
               /\ upload' = [upload EXCEPT !.pc = "polling"]
               /\ UNCHANGED <<uploading, uploadError>>
          ELSE /\ UploadEnds(TRUE, IF r = "rejected" THEN "Failed to enqueue processing job"
                                   ELSE "Failed to fetch")
               /\ UNCHANGED <<jobStatus, store, poll>>
    /\ UNCHANGED <<page, currentStep, activeJob, analyticsReq>>

(* what the end of a pollJob run means for its caller: handleUpload ends   *)
(* (lines 139-143), the resume effect logs the error (lines 90-92)         *)
PollEnds(who, failed, msg) ==
    IF who = "upload"
    THEN UploadEnds(failed, msg)
    ELSE UNCHANGED <<uploading, uploadError, upload>>

(* lines 50-67: the response of GET /jobs/{job_id}, or its failure *)
PollResponse(who, oks) ==
    /\ poll[who].pc = "fetch"
    /\ \E ok \in oks :
          LET job    == poll[who].job[1]
              status == jobStatus[job.job_id]
          IN  IF ~ok
              THEN /\ poll' = [poll EXCEPT ![who].pc = "thrown"]
                   /\ PollEnds(who, TRUE, "Failed to fetch")
                   /\ UNCHANGED <<store, currentStep, analyticsReq>>
              ELSE IF pollBranch(status) = "finished"
              THEN /\ currentStep' = <<"Running analytics">>
                   /\ analyticsReq' = analyticsReq \cup {job.match_id}
                   /\ poll' = [poll EXCEPT ![who] = [@ EXCEPT !.pc = "analytics", !.s = status]]
                   /\ UNCHANGED <<store, uploading, uploadError, upload>>
              ELSE IF pollBranch(status) = "failed"
              THEN /\ currentStep' = <<0, "failed">>
                   /\ store' = removeJob(loadJobs(store), job.job_id)
                   /\ poll' = [poll EXCEPT ![who] = [@ EXCEPT !.pc = "thrown", !.s = status]]
                   /\ PollEnds(who, TRUE, "Job failed")
                   /\ UNCHANGED analyticsReq
              ELSE /\ currentStep' = stepText(status)
                   /\ poll' = [poll EXCEPT ![who] = [@ EXCEPT !.pc = "sleep", !.s = status]]
                   /\ UNCHANGED <<store, analyticsReq, uploading, uploadError, upload>>
    /\ UNCHANGED <<page, activeJob, jobStatus>>

(* line 66: the 1500 ms sleep is over, the next status request is sent *)
PollWake(who) ==
    /\ poll[who].pc = "sleep"
    /\ poll' = [poll EXCEPT ![who].pc = "fetch"]
    /\ UNCHANGED <<store, page, uploading, currentStep, uploadError, activeJob,
                   upload, jobStatus, analyticsReq>>

(* lines 57-60: onFinished (the four analytics requests and the match list) *)
(* is settled; when it rejects pollJob throws before removeJob              *)
AnalyticsDone(who) ==
    /\ poll[who].pc = "analytics"
    /\ \E ok \in BOOLEAN :
          IF ok
          THEN /\ currentStep' = <<"Processing complete!">>
               /\ store' = removeJob(loadJobs(store), poll[who].job[1].job_id)
               /\ poll' = [poll EXCEPT ![who].pc = "returned"]
               /\ PollEnds(who, FALSE, "")
          ELSE /\ poll' = [poll EXCEPT ![who].pc = "thrown"]
               /\ PollEnds(who, TRUE, "Failed to fetch")
               /\ UNCHANGED <<store, currentStep>>
    /\ UNCHANGED <<page, activeJob, jobStatus, analyticsReq>>

(* the backend works on job m *)
JobAdvance(m) ==
    /\ jobStatus[m] \in {"queued", "running"}
    /\ \E st \in (IF jobStatus[m] = "queued" THEN {"running", "canceled"}
                  ELSE {"finished", "failed", "stopped"}) :
          jobStatus' = [jobStatus EXCEPT ![m] = st]
    /\ UNCHANGED <<store, page, uploading, currentStep, uploadError, activeJob,
                   upload, poll, analyticsReq>>

HomeInit == GeomIdle /\ PageIdle /\ StatsIdle /\ HomeIdle

HomeNext ==
    ( \/ Load
      \/ Leave
      \/ UploadSubmit
      \/ IngestDone
      \/ EnqueueDone
      \/ \E who \in {"resume", "upload"} : PollResponse(who, BOOLEAN)
      \/ \E who \in {"resume", "upload"} : PollWake(who)
      \/ \E who \in {"resume", "upload"} : AnalyticsDone(who)
      \/ \E m \in 1..MaxJobs : JobAdvance(m) ) /\ UNCHANGED <<gvars, pvars, avars>>

SpecHome == HomeInit /\ [][HomeNext]_vars

(* Home when every status request succeeds, the backend goes on working on *)
(* a job until it reports a terminal status, and every request and sleep   *)
(* of a running pollJob is eventually settled.  The page may be left and   *)
(* loaded at any moment.                                                   *)
PollStep(who) ==
    (PollResponse(who, {TRUE}) \/ PollWake(who) \/ AnalyticsDone(who))
    /\ UNCHANGED <<gvars, pvars, avars>>

BackendStep(m) == JobAdvance(m) /\ UNCHANGED <<gvars, pvars, avars>>

UserStep ==
    (Load \/ Leave \/ UploadSubmit \/ IngestDone \/ EnqueueDone)
    /\ UNCHANGED <<gvars, pvars, avars>>

HomeLiveNext ==
    \/ UserStep
    \/ \E who \in {"resume", "upload"} : PollStep(who)
    \/ \E m \in 1..MaxJobs : BackendStep(m)

SpecHomeLive ==
    /\ HomeInit
    /\ [][HomeLiveNext]_vars
    /\ \A who \in {"resume", "upload"} : WF_vars(PollStep(who))
    /\ \A m \in 1..MaxJobs : WF_vars(BackendStep(m))

(***************************************************************************)
(* The analytics panel (src/components/Analytics.tsx).  A data prop is     *)
(* null or an object with a series: a sequence of at most one record       *)
(* [series].  A possession entry is [frame_id, team] with team 1, 2 or     *)
(* NullTeam, a control-zone entry [frame_id, team1_area_pct,               *)
(* team2_area_pct], a momentum entry [frame_id, team1_momentum,            *)
(* team2_momentum], the figures being numbers.  The rendered panel is      *)
(* [kind |-> "loading"] or [kind |-> "analytics", possession,              *)
(* currentPossession, controlZones, momentum], a section that is not       *)
(* rendered being <<>> and a rendered one the sequence of its figures.     *)
(***************************************************************************)
NullTeam == 0

(* series.filter(frame => frame.frame_id <= currentFrame) *)
relevantFrames(series, frame) == SelectSeq(series, LAMBDA e : e.frame_id <= frame)

calculatePossessionStats(data, frame) ==
    IF data = <<>> THEN [team1 |-> DNum(0), team2 |-> DNum(0), neutral |-> DNum(0)]
    ELSE LET relevant == relevantFrames(data[1].series, frame)
             team1Frames == Len(SelectSeq(relevant, LAMBDA e : e.team = 1))
             team2Frames == Len(SelectSeq(relevant, LAMBDA e : e.team = 2))
             neutralFrames == Len(SelectSeq(relevant, LAMBDA e : e.team = NullTeam))
             totalFrames == Len(relevant)
         IN  IF Len(relevant) = 0
             THEN [team1 |-> DNum(0), team2 |-> DNum(0), neutral |-> DNum(0)]
             ELSE [team1   |-> MathRound(DMul(DDiv(DNum(team1Frames), DNum(totalFrames)), DNum(100))),
                   team2   |-> MathRound(DMul(DDiv(DNum(team2Frames), DNum(totalFrames)), DNum(100))),
                   neutral |-> MathRound(DMul(DDiv(DNum(neutralFrames), DNum(totalFrames)), DNum(100)))]

(* frameData?.team || null *)
getCurrentPossession(data, frame) ==
    IF data = <<>> THEN NullTeam
    ELSE LET found == SelectSeq(data[1].series, LAMBDA e : e.frame_id = frame)
         IN  IF found = <<>> THEN NullTeam ELSE found[1].team

calculateControlZoneStats(data, frame) ==
    IF data = <<>> THEN ZeroStats
    ELSE LET relevant == relevantFrames(data[1].series, frame)
         IN  IF Len(relevant) = 0 THEN ZeroStats
             ELSE LET latestFrame == relevant[Len(relevant)]
                  IN  [team1 |-> MathRound(latestFrame.team1_area_pct),
                       team2 |-> MathRound(latestFrame.team2_area_pct)]

calculateMomentumStats(data, frame) ==
    IF data = <<>> THEN ZeroStats
    ELSE LET relevant == relevantFrames(data[1].series, frame)
         IN  IF Len(relevant) = 0 THEN ZeroStats
             ELSE LET latestFrame == relevant[Len(relevant)]
                  IN  [team1 |-> MathRound(latestFrame.team1_momentum),
                       team2 |-> MathRound(latestFrame.team2_momentum)]

(* lines 105-119: the panel while no data has arrived *)
LoadingPanel == [kind |-> "loading"]

(* the component body: the loading panel when the three props are null,    *)
(* else the possession section and the control-zone and momentum sections  *)
(* of the props that are not null                                          *)
Analytics(possession, controlZone, momentum, frame) ==
    IF possession = <<>> /\ controlZone = <<>> /\ momentum = <<>>
    THEN LoadingPanel
    ELSE [kind              |-> "analytics",
          possession        |-> calculatePossessionStats(possession, frame),
          currentPossession |-> getCurrentPossession(possession, frame),
          controlZones      |-> IF controlZone # <<>>
                                THEN <<calculateControlZoneStats(controlZone, frame)>>
                                ELSE <<>>,
          momentum          |-> IF momentum # <<>>
                                THEN <<calculateMomentumStats(momentum, frame)>>
                                ELSE <<>>]

(* the frames 1..LongSeriesLen, the first LongSeriesTeam1 of them of team 1 *)
(* and the others of team 2: 23 of 40 is 57.49999999999999 % in doubles    *)
LongSeriesLen == 40
LongSeriesTeam1 == 23

LongSeries ==
    [k \in 1..LongSeriesLen |->
        [frame_id |-> k, team |-> IF k <= LongSeriesTeam1 THEN 1 ELSE 2]]

(* possession series: empty, entries of frames 2, 5 and 10, and the long   *)
(* series                                                                  *)
PossessionSeries ==
    { <<>>,
      << [frame_id |-> 2, team |-> 1], [frame_id |-> 5, team |-> NullTeam],
         [frame_id |-> 10, team |-> 2] >>,
      LongSeries }

(* entries of frames 2, 5 and 10 (the series has a frame stride): 60.4 %   *)
(* against 39.6 %, 49.5 % against 50.5 %, 30 % against 70 %                *)
ControlZonePool ==
    { [frame_id |-> 2,  team1_area_pct |-> DDec(604, 1), team2_area_pct |-> DDec(396, 1)],
      [frame_id |-> 5,  team1_area_pct |-> DDec(495, 1), team2_area_pct |-> DDec(505, 1)],
      [frame_id |-> 10, team1_area_pct |-> DNum(30),     team2_area_pct |-> DNum(70)] }

MomentumPool ==
    { [frame_id |-> 2,  team1_momentum |-> DDec(25, 1),  team2_momentum |-> DDec(-25, 1)],
      [frame_id |-> 5,  team1_momentum |-> DNum(0),      team2_momentum |-> DDec(175, 2)],
      [frame_id |-> 10, team1_momentum |-> DDec(-25, 2), team2_momentum |-> DNum(12)] }

(* the series of at most MaxSeriesLen entries of a pool, in any order, no  *)
(* frame occurring twice                                                   *)
SeriesOver(pool) ==
    { s \in UNION { [1..n -> pool] : n \in 0..MaxSeriesLen } :
         \A i, j \in DOMAIN s : i # j => s[i].frame_id # s[j].frame_id }

(* a data prop: null, or an object holding one of the series *)
DataOver(seriesSet) == {<<>>} \cup { <<[series |-> s]>> : s \in seriesSet }

StatsInit ==
    /\ GeomIdle /\ PageIdle /\ HomeIdle
    /\ possessionData \in DataOver(PossessionSeries)
    /\ controlZoneData \in DataOver(SeriesOver(ControlZonePool))
    /\ momentumData \in DataOver(SeriesOver(MomentumPool))
    /\ currentFrame = 0
    /\ panel = <<>>
    /\ apc = "start"

(* the panel is rendered for a current frame *)
Render(frames) ==
    /\ \E f \in frames :
          /\ currentFrame' = f
          /\ panel' = Analytics(possessionData, controlZoneData, momentumData, f)
    /\ apc' = "shown"
    /\ UNCHANGED <<possessionData, controlZoneData, momentumData>>

(* the current frames 0..MaxFrame and the last frame of the long series *)
StatsFrames == (0..MaxFrame) \cup {LongSeriesLen}

StatsNext == Render(StatsFrames) /\ UNCHANGED <<gvars, pvars, hvars>>

SpecStats == StatsInit /\ [][StatsNext]_vars

(***************************************************************************)
(* Properties of the projective transform.                                 *)
(***************************************************************************)
(* Exact arithmetic on finite doubles: a value is [sign, m, e], standing   *)
(* for sign * m * 2^e with m a natural number of any size.                 *)
XMul(x, y) == [sign |-> x.sign * y.sign, m |-> BMul(x.m, y.m), e |-> x.e + y.e]

XNeg(x) == [sign |-> -x.sign, m |-> x.m, e |-> x.e]

XAdd(x, y) ==
    LET E  == IF x.e < y.e THEN x.e ELSE y.e
        mx == BShl(x.m, x.e - E)
        my == BShl(y.m, y.e - E)
    IN  IF x.sign = y.sign THEN [sign |-> x.sign, m |-> BAdd(mx, my), e |-> E]
        ELSE IF BCmp(mx, my) >= 0 THEN [sign |-> x.sign, m |-> BSub(mx, my), e |-> E]
        ELSE [sign |-> y.sign, m |-> BSub(my, mx), e |-> E]

XSub(x, y) == XAdd(x, XNeg(y))

(* the determinant of a matrix of finite doubles, without rounding *)
XDet(H) ==
    XAdd(XAdd(XMul(H[1][1], XSub(XMul(H[2][2], H[3][3]), XMul(H[2][3], H[3][2]))),
              XNeg(XMul(H[1][2], XSub(XMul(H[2][1], H[3][3]), XMul(H[2][3], H[3][1]))))),
         XMul(H[1][3], XSub(XMul(H[2][1], H[3][2]), XMul(H[2][2], H[3][1]))))

AllFinite(M) == \A r \in 1..3 : \A c \in 1..3 : DIsFinite(M[r][c])

Singular(H) == AllFinite(H) /\ XDet(H).m = <<>>

(* |det H| > 1e-6 *)
WellConditioned(H) ==
    /\ AllFinite(H)
    /\ LET det == XDet(H)
       IN  DLt(DDec(1, 6), Round(1, det.m, det.e, FALSE))

(* equal as numbers: +0 and -0 are the same number *)
SameNumber(x, y) == x = y \/ (x.kind = "fin" /\ y.kind = "fin" /\ x.m = <<>> /\ y.m = <<>>)

(* the integer an integer-valued double holds *)
IntOf(x) == x.sign * MathFloor(DAbs(x))

IntegerValued(H) ==
    \A r \in 1..3 : \A c \in 1..3 : DIsFinite(H[r][c]) /\ H[r][c].e >= 0

IntMatrix(H) == [r \in 1..3 |-> [c \in 1..3 |-> IntOf(H[r][c])]]

IntMatMul(M, N) ==
    [r \in 1..3 |->
        [c \in 1..3 |-> M[r][1] * N[1][c] + M[r][2] * N[2][c] + M[r][3] * N[3][c]]]

(* Determinant by the rule of Sarrus. *)
IntDet(K) ==
    K[1][1] * K[2][2] * K[3][3] + K[1][2] * K[2][3] * K[3][1] + K[1][3] * K[2][1] * K[3][2]
    - K[1][3] * K[2][2] * K[3][1] - K[1][2] * K[2][1] * K[3][3] - K[1][1] * K[2][3] * K[3][2]

(* Cofactor matrix: the indices of a 2x2 minor are taken cyclically,       *)
(* which carries the sign.                                                 *)
IntCofactor(K) ==
    LET Nx(j) == (j % 3) + 1
    IN  [r \in 1..3 |->
            [c \in 1..3 |->
                K[Nx(r)][Nx(c)] * K[Nx(Nx(r))][Nx(Nx(c))]
                - K[Nx(r)][Nx(Nx(c))] * K[Nx(Nx(r))][Nx(c)]]]

IntTranspose(K) == [r \in 1..3 |-> [c \in 1..3 |-> K[c][r]]]

IntScaled(k) == [r \in 1..3 |-> [c \in 1..3 |-> IF r = c THEN k ELSE 0]]

MatMul(M, N) ==
    [r \in 1..3 |->
        [c \in 1..3 |->
            DAdd(DAdd(DMul(M[r][1], N[1][c]), DMul(M[r][2], N[2][c])), DMul(M[r][3], N[3][c]))]]

SameMatrix(M, N) == \A r \in 1..3 : \A c \in 1..3 : SameNumber(M[r][c], N[r][c])

RECURSIVE IsPowerOfTwo(_)
IsPowerOfTwo(k) == k = 1 \/ (k > 1 /\ k % 2 = 0 /\ IsPowerOfTwo(k \div 2))

RowDot(row, X, Y) == DAdd(DAdd(DMul(row[1], X), DMul(row[2], Y)), DMul(row[3], DNum(1)))

ProjectionOf(M, X, Y, res) ==
    LET x == RowDot(M[1], X, Y)
        y == RowDot(M[2], X, Y)
        w == RowDot(M[3], X, Y)
    IN  /\ (res = Null) <=> (~DIsFinite(w) \/ DLt(DAbs(w), DDec(1, 9)))
        /\ res # Null => res = <<DDiv(x, w), DDiv(y, w)>>

(* |x - k| <= 1e-6 *)
Within(x, k) == ~DLt(DDec(1, 6), DAbs(DSub(x, DNum(k))))

(* C1: for every integer-valued matrix H whose determinant is non-zero     *)
(* (hence at least 1e-12 in magnitude), invert3x3(H) is the adjugate of H  *)
(* divided by det(H), entry by entry, and the adjugate divided by det(H)   *)
(* is the inverse of H in exact arithmetic: adj*H = H*adj = det(H)*I.  The *)
(* product of the returned matrix with H is the identity itself when the   *)
(* divisions are exact (det(H) plus or minus a power of two).              *)
C1_InvertIsInverse ==
    (gpc = "inverted" /\ IntegerValued(gH) /\ IntDet(IntMatrix(gH)) # 0)
        => LET K   == IntMatrix(gH)
               det == IntDet(K)
               adj == IntTranspose(IntCofactor(K))
           IN  /\ gInv # Null
               /\ \A r \in 1..3 : \A c \in 1..3 :
                     SameNumber(gInv[r][c], DDiv(DNum(adj[r][c]), DNum(det)))
               /\ IntMatMul(adj, K) = IntScaled(det)
               /\ IntMatMul(K, adj) = IntScaled(det)
               /\ IsPowerOfTwo(Abs(det))
                     => /\ SameMatrix(MatMul(gInv, gH), Identity3)
                        /\ SameMatrix(MatMul(gH, gInv), Identity3)

C1_Witness ==
    /\ gpc = "inverted"
    /\ IntegerValued(gH)
    /\ gInv # Null
    /\ gInv[1][2] = DDec(5, 1)
    /\ gH[3][1] # DNum(0)

(* C2: invert3x3 of a singular matrix (determinant 0: the all-zero matrix, *)
(* two identical rows, ...) is null and never a matrix.  The statement     *)
(* fails: the determinant the code computes for a singular matrix of       *)
(* decimal entries can be a rounding residue of 1e-12 or more.             *)
C2_SingularGivesNull ==
    (gpc = "inverted" /\ Singular(gH)) => gInv = Null

(* C3: project computes (x,y,w) = M*(X,Y,1); the result is null exactly    *)
(* when w is non-finite or |w| < 1e-9, and is (x/w, y/w) otherwise.        *)
C3_ProjectDegenerateExactly ==
    /\ gpc \in {"fwd", "back"}
          => ProjectionOf(gH, DNum(gP[1]), DNum(gP[2]), gFwd)
    /\ gpc = "back"
          => ProjectionOf(gInv, gFwd[1], gFwd[2], gBack)

C3_Witness ==
    /\ gpc = "fwd"
    /\ gFwd = Null
    /\ gH[3][3] = DDec(5, 10)

(* C4: round trip: for a well-conditioned H, projecting P with H and the   *)
(* result with invert3x3(H) returns P within 1e-6 in each coordinate,      *)
(* provided neither projection is degenerate.                              *)
C4_RoundTrip ==
    (gpc = "back" /\ gBack # Null /\ WellConditioned(gH))
        => /\ Within(gBack[1], gP[1])
           /\ Within(gBack[2], gP[2])

(* a round trip through a perspective matrix that does not return P        *)
(* bit for bit                                                             *)
C4_Witness ==
    /\ gpc = "back"
    /\ gBack # Null
    /\ WellConditioned(gH)
    /\ gH[3][1] # DNum(0)
    /\ gP[1] # 0
    /\ gBack[1] # DNum(gP[1])

(***************************************************************************)
(* Properties of the frame clock, the style resolver and drawBoxes.        *)
(***************************************************************************)
(* C5: the frame index of a draw is floor(playbackTime * 25): 1.000 s      *)
(* gives frame 25, 0.999 s gives frame 24, and the index never decreases   *)
(* when the playback time increases.  The statement fails: at 1.160 s the  *)
(* product computed in doubles is just below 29 and the index is 28.       *)
C5_FrameIndexIsFloor ==
    /\ [](last # <<>> =>
            LET t  == last[1].t
                ms == last[1].video.currentTime
            IN  /\ ms = video.currentTime
                /\ t * 1000 <= ms * 25
                /\ ms * 25 < (t + 1) * 1000
                /\ (ms = 1000 => t = 25)
                /\ (ms = 999 => t = 24))
    /\ [][(last # <<>> /\ video'.currentTime >= video.currentTime)
            => last'[1].t >= last[1].t]_vars

CoversFrame(s, t) == s.frame_start <= t /\ t <= s.frame_end

NoSegmentCovers(hom, t) == \A k \in 1..Len(hom) : ~CoversFrame(hom[k], t)

(* C6: segment selection returns the first segment in listed order with    *)
(* frame_start <= t <= frame_end, both boundaries inclusive, and none when *)
(* no segment covers the frame.                                            *)
C6_FirstCoveringSegment ==
    (last # <<>> /\ last[1].env.showPitch /\ Len(last[1].env.homography) > 0)
        => LET t   == last[1].t
               hom == last[1].env.homography
               seg == last[1].seg
           IN  /\ (seg = <<>>) <=> NoSegmentCovers(hom, t)
               /\ seg # <<>> =>
                     \E k \in 1..Len(hom) :
                        /\ seg[1] = hom[k]
                        /\ CoversFrame(hom[k], t)
                        /\ \A j \in 1..(k - 1) : ~CoversFrame(hom[j], t)

C6_Witness ==
    /\ last # <<>>
    /\ last[1].t = 99
    /\ Len(last[1].env.homography) = 2
    /\ CoversFrame(last[1].env.homography[1], 99)
    /\ CoversFrame(last[1].env.homography[2], 99)
    /\ last[1].env.homography[1].frame_start > last[1].env.homography[2].frame_start
    /\ last[1].seg = <<last[1].env.homography[1]>>

(* C7: in a draw whose frame is covered by no segment, no landmark dot and *)
(* no edge is drawn, and the trails, markers and labels are those the same *)
(* draw produces with a covering segment.                                  *)
C7_NoSegmentNoSkeleton ==
    (last # <<>> /\ NoSegmentCovers(last[1].env.homography, last[1].t))
        => /\ canvas.dots = <<>>
           /\ canvas.edges = <<>>
           /\ \A hom2 \in {<<Seg(last[1].t, last[1].t, KpsLeft)>>,
                            <<Seg(0, 200, KpsRight), Seg(0, 99, KpsLeft)>>} :
                 LET r2 == drawBoxes(last[1].video, [last[1].env EXCEPT !.homography = hom2])
                 IN  /\ r2.canvas.trails = canvas.trails
                     /\ r2.canvas.markers = canvas.markers
                     /\ r2.canvas.labels = canvas.labels
                     /\ last[1].env.showPitch => r2.canvas.dots # <<>>

C7_Witness ==
    /\ last # <<>>
    /\ last[1].env.showPitch
    /\ Len(last[1].env.homography) > 0
    /\ NoSegmentCovers(last[1].env.homography, last[1].t)
    /\ Len(canvas.markers) > 0
    /\ Len(canvas.trails) > 0

CurrentDetections(l) ==
    LET Current(d) == d.frame_id = l.t
    IN  SelectSeq(l.env.detections, Current)

(* C8: a marker has a team colour only for a player whose object id maps   *)
(* to team 1 or 2, and then the colour of exactly that team; every other   *)
(* detection has the colour of its class, blue for an unknown class.       *)
C8_StyleResolution ==
    last # <<>> =>
        LET cur == CurrentDetections(last[1])
            m   == last[1].env.tracksMap
        IN  /\ Len(canvas.markers) = Len(cur)
            /\ \A k \in 1..Len(cur) :
                  LET d == cur[k]
                      stroke == canvas.markers[k].stroke
                      team == IF d.object_id # NullId /\ d.object_id \in DOMAIN m
                              THEN m[d.object_id] ELSE 0
                  IN  /\ (d.class_name \in {STR_player, STR_Player, STR_PLAYER} /\ team = 1)
                            => stroke = "rgba(220,38,38,0.9)"
                      /\ (d.class_name \in {STR_player, STR_Player, STR_PLAYER} /\ team = 2)
                            => stroke = "rgba(37,99,235,0.9)"
                      /\ ~(d.class_name \in {STR_player, STR_Player, STR_PLAYER} /\ team \in {1, 2})
                            => stroke = getColorForClass(d.class_name).stroke
                      /\ d.class_name \in {STR_referee, STR_Referee} => stroke = "#FFD700"
                      /\ d.class_name \in {STR_goalkeeper, STR_GoalKeeper} => stroke = "#00FFFF"
                      /\ d.class_name \in {STR_ball, STR_BALL} => stroke = "#FFA500"
                      /\ d.class_name = STR_staff => stroke = "#60a5fa"

C8_Witness ==
    /\ last # <<>>
    /\ Len(canvas.markers) = 1
    /\ last[1].env.detections[1].class_name = STR_PLAYER
    /\ last[1].env.detections[1].object_id = 7
    /\ 7 \in DOMAIN last[1].env.tracksMap
    /\ last[1].env.tracksMap[7] = 3
    /\ canvas.markers[1].stroke = "#f87171"

Permute(arr, perm) == [k \in 1..Len(arr) |-> arr[perm[k]]]

(* C9: the colour drawn for a detection does not depend on the order of    *)
(* the detection list nor on the other detections of the draw.             *)
C9_StyleOrderIndependent ==
    last # <<>> =>
        LET l    == last[1]
            dets == l.env.detections
            cur  == CurrentDetections(l)
        IN  /\ \A perm \in Permutations(1..Len(dets)) :
                  LET env2 == [l.env EXCEPT !.detections = Permute(dets, perm)]
                      r2   == drawBoxes(l.video, env2)
                      cur2 == CurrentDetections([l EXCEPT !.env = env2])
                  IN  \A i \in 1..Len(cur) : \A j \in 1..Len(cur2) :
                         cur[i] = cur2[j]
                            => canvas.markers[i].stroke = r2.canvas.markers[j].stroke
            /\ \A i \in 1..Len(cur) :
                  LET r1 == drawBoxes(l.video, [l.env EXCEPT !.detections = <<cur[i]>>])
                  IN  canvas.markers[i].stroke = r1.canvas.markers[1].stroke

C9_Witness ==
    /\ last # <<>>
    /\ Len(canvas.markers) = 2
    /\ canvas.markers[1].stroke # canvas.markers[2].stroke
    /\ last[1].env.tracksMap # NoTracks

(* the scale factors of the canvas laid over video element v: layout size  *)
(* by native size, the layout size itself standing for a native size of 0  *)
ScaleX(v) == DDiv(DNum(v.clientWidth),
                  DNum(IF v.videoWidth # 0 THEN v.videoWidth ELSE v.clientWidth))

ScaleY(v) == DDiv(DNum(v.clientHeight),
                  DNum(IF v.videoHeight # 0 THEN v.videoHeight ELSE v.clientHeight))

(* the mid-point of a and b scaled by factor *)
ScaledMid(a, b, factor) == DMul(DDiv(DNum(a + b), DNum(2)), factor)

(* the box centre of detection d in canvas coordinates, with its frame *)
CentreOf(d, v) ==
    [x |-> ScaledMid(d.x1, d.x2, ScaleX(v)),
     y |-> ScaledMid(d.y1, d.y2, ScaleY(v)),
     frame |-> d.frame_id]

(* C10: the trail of object o at frame t is the box centres of all the     *)
(* detections of o with frame_id in [max(0, t-20), t], in non-decreasing   *)
(* frame order, several detections of one frame all kept.                  *)
C10_TrailWindow ==
    last # <<>> =>
        LET l    == last[1]
            dets == l.env.detections
            lo   == IF l.t - 20 > 0 THEN l.t - 20 ELSE 0
        IN  /\ NullId \notin DOMAIN l.byId
            /\ \A o \in 0..8 :
                  LET trail == IF o \in DOMAIN l.byId THEN l.byId[o] ELSE <<>>
                      K == {k \in 1..Len(dets) :
                              /\ dets[k].object_id = o
                              /\ dets[k].frame_id >= lo
                              /\ dets[k].frame_id <= l.t}
                  IN  /\ Len(trail) = Cardinality(K)
                      /\ \A k \in K :
                            Cardinality({i \in 1..Len(trail) : trail[i] = CentreOf(dets[k], l.video)})
                              = Cardinality({j \in K : CentreOf(dets[j], l.video) = CentreOf(dets[k], l.video)})
                      /\ \A i \in 1..Len(trail) : \A j \in i..Len(trail) :
                            trail[i].frame <= trail[j].frame

C10_Witness ==
    /\ last # <<>>
    /\ last[1].t = 50
    /\ \E k \in 1..Len(last[1].env.detections) :
          /\ last[1].env.detections[k].frame_id = 29
          /\ last[1].env.detections[k].object_id = 7
    /\ 7 \in DOMAIN last[1].byId
    /\ Len(last[1].byId[7]) = 1
    /\ last[1].byId[7][1].frame = 30

(* the polyline points of the trail kept under key id by the latest draw *)
TrailXY(id) ==
    [k \in 1..Len(last[1].byId[id]) |-> <<last[1].byId[id][k].x, last[1].byId[id][k].y>>]

TrailDrawn(id) == \E k \in 1..Len(canvas.trails) : canvas.trails[k].pts = TrailXY(id)

(* C11: in every draw a polyline is drawn for a trail if and only if the   *)
(* trail has at least 2 points.  The statement fails on the trail grouped  *)
(* under the key of detections without object_id field: it has two points, *)
(* no detection is === Number("undefined"), and line 496 returns.          *)
C11_PolylineIffTwoPoints ==
    last # <<>> =>
        \A id \in DOMAIN last[1].byId : TrailDrawn(id) <=> Len(last[1].byId[id]) >= 2

(* C12: each trail of at least 2 points is drawn in the colour resolved    *)
(* from a detection that shares its object_id, and in the neutral colour   *)
(* "#60a5fa" when no detection shares it.  The statement fails: when no    *)
(* detection is found the trail is not drawn at all.                       *)
C12_TrailColour ==
    last # <<>> =>
        LET dets == last[1].env.detections
            tMap == last[1].env.tracksMap
            Sharing(id) == {k \in 1..Len(dets) : id # UndefinedId /\ dets[k].object_id = id}
            Allowed(id) == IF Sharing(id) # {}
                           THEN {getStyledColors(dets[k], tMap).stroke : k \in Sharing(id)}
                           ELSE {"#60a5fa"}
        IN  \A id \in DOMAIN last[1].byId :
               Len(last[1].byId[id]) >= 2 =>
                   \E k \in 1..Len(canvas.trails) :
                       /\ canvas.trails[k].pts = TrailXY(id)
                       /\ canvas.trails[k].stroke \in Allowed(id)

(* the box of detection d scaled to the canvas laid over video element v *)
ScaledBox(d, v) ==
    [x |-> DMul(DNum(d.x1), ScaleX(v)),
     y |-> DMul(DNum(d.y1), ScaleY(v)),
     w |-> DMul(DNum(d.x2 - d.x1), ScaleX(v)),
     h |-> DMul(DNum(d.y2 - d.y1), ScaleY(v))]

(* C13: the marker of a current-frame detection that is not a ball is an   *)
(* ellipse centred at the bottom mid-point of the scaled box, with         *)
(* horizontal radius half the box width and vertical radius 12% of the box *)
(* height.  The statement fails: the code passes w * 0.7 as radiusX.       *)
C13_EllipseRadii ==
    last # <<>> =>
        LET cur == CurrentDetections(last[1])
        IN  /\ Len(canvas.markers) = Len(cur)
            /\ \A k \in 1..Len(cur) :
                  toLowerCase(cur[k].class_name) # STR_ball =>
                      LET b == ScaledBox(cur[k], last[1].video)
                          m == canvas.markers[k]
                      IN  /\ m.shape = "ellipse"
                          /\ m.cx = DAdd(b.x, DDiv(b.w, DNum(2)))
                          /\ m.cy = DAdd(b.y, b.h)
                          /\ m.radiusX = DDiv(b.w, DNum(2))
                          /\ m.radiusY = DMul(b.h, DDec(12, 2))

(* C14 as stated: the label baseline is y-4 when y-4 >= 10, otherwise it   *)
(* is below the box (not above its bottom edge y+h), and it is never less  *)
(* than 10 when y >= 0.  The statement fails for a box taller than 12 px:  *)
(* the moved label is at y+12, inside the box.                             *)
C14_LabelBelowBox ==
    last # <<>> =>
        LET cur == CurrentDetections(last[1])
        IN  /\ Len(canvas.labels) = Len(cur)
            /\ \A k \in 1..Len(cur) :
                  LET b  == ScaledBox(cur[k], last[1].video)
                      y4 == DSub(b.y, DNum(4))
                      l  == canvas.labels[k]
                  IN  /\ ~DLt(y4, DNum(10)) => l.y = y4
                      /\ DLt(y4, DNum(10)) => ~DLt(l.y, DAdd(b.y, b.h))
                      /\ ~DLt(b.y, DNum(0)) => ~DLt(l.y, DNum(10))

(* C14, amended: the label baseline is y-4 when y-4 >= 10 and y+12         *)
(* otherwise (12 px below the top edge of the box), and it is never less   *)
(* than 10 when y >= 0.                                                    *)
C14_LabelBaseline ==
    last # <<>> =>
        LET cur == CurrentDetections(last[1])
        IN  /\ Len(canvas.labels) = Len(cur)
            /\ \A k \in 1..Len(cur) :
                  LET b  == ScaledBox(cur[k], last[1].video)
                      y4 == DSub(b.y, DNum(4))
                      l  == canvas.labels[k]
                  IN  /\ ~DLt(y4, DNum(10)) => l.y = y4
                      /\ DLt(y4, DNum(10)) => l.y = DAdd(b.y, DNum(12))
                      /\ ~DLt(b.y, DNum(0)) => ~DLt(l.y, DNum(10))

(* a label moved to y+12 that lies inside its box *)
C14_Witness ==
    /\ last # <<>>
    /\ \E k \in 1..Len(canvas.labels) :
          LET b == ScaledBox(CurrentDetections(last[1])[k], last[1].video)
          IN  /\ DLt(DSub(b.y, DNum(4)), DNum(10))
              /\ canvas.labels[k].y = DAdd(b.y, DNum(12))
              /\ DLt(canvas.labels[k].y, DAdd(b.y, b.h))

(* the latest draw drew the skeleton of a segment *)
SkeletonDrawn ==
    /\ last # <<>>
    /\ last[1].env.showPitch
    /\ last[1].seg # <<>>
    /\ Len(last[1].seg[1].keypoints_img) > 0

(* the connections whose two endpoints are among the keypoints kps *)
BothObtained(kps) ==
    LET names == {kps[i].name : i \in 1..Len(kps)}
    IN  {k \in 1..Len(connections) :
            connections[k][1] \in names /\ connections[k][2] \in names}

(* the canvas position of the keypoint called name: the last one listed *)
KeypointAt(kps, name, v) ==
    LET i  == CHOOSE j \in 1..Len(kps) :
                  /\ kps[j].name = name
                  /\ \A m \in (j + 1)..Len(kps) : kps[m].name # name
    IN  <<DMul(DNum(kps[i].x), ScaleX(v)), DMul(DNum(kps[i].y), ScaleY(v))>>

(* C15: when the skeleton is drawn, an edge of the topology is drawn if    *)
(* and only if both its endpoints are among the segment's keypoints: the   *)
(* drawn edges are exactly those connections, in topology order, between   *)
(* the scaled keypoints; a missing endpoint omits only its own edges.      *)
C15_EdgeIffBothEndpoints ==
    SkeletonDrawn =>
        LET kps  == last[1].seg[1].keypoints_img
            both == BothObtained(kps)
            Rank(k) == Cardinality({j \in both : j <= k})
        IN  /\ Len(canvas.edges) = Cardinality(both)
            /\ \A k \in both :
                  canvas.edges[Rank(k)] =
                      << KeypointAt(kps, connections[k][1], last[1].video),
                         KeypointAt(kps, connections[k][2], last[1].video) >>

(* a skeleton with drawn edges after an omitted one *)
C15_Witness ==
    /\ SkeletonDrawn
    /\ Len(canvas.edges) >= 2
    /\ \E k \in BothObtained(last[1].seg[1].keypoints_img) :
          \E j \in 1..(k - 1) : j \notin BothObtained(last[1].seg[1].keypoints_img)

(* C16: in a draw with the pitch overlay enabled whose active segment has  *)
(* a singular matrix H, the skeleton is not drawn, while trails, markers   *)
(* and labels are drawn as without homography data.  The statement fails:  *)
(* drawBoxes never reads H and draws the segment's keypoints; the guard of *)
(* drawPitchOverlay (`if (!Hinv) return`) is in a function nobody calls.   *)
C16_SingularNoSkeleton ==
    (/\ last # <<>>
     /\ last[1].env.showPitch
     /\ last[1].seg # <<>>
     /\ invert3x3(last[1].seg[1].H) = Null)
    => LET plain == drawBoxes(last[1].video, [last[1].env EXCEPT !.homography = <<>>]).canvas
       IN  /\ canvas.dots = <<>>
           /\ canvas.edges = <<>>
           /\ canvas.trails = plain.trails
           /\ canvas.markers = plain.markers
           /\ canvas.labels = plain.labels

(* C17: after any sequence of draws the surface holds exactly what the     *)
(* most recent draw produced, also when that draw ended at the test for an *)
(* empty detection list; before the first draw it is blank.                *)
C17_LastDrawOnly ==
    /\ last = <<>> => canvas = BlankCanvas
    /\ last # <<>> =>
          /\ canvas = drawBoxes(last[1].video, last[1].env).canvas
          /\ Len(canvas.markers) = Len(CurrentDetections(last[1]))
          /\ Len(canvas.labels) = Len(CurrentDetections(last[1]))
          /\ Len(last[1].env.detections) = 0 =>
                canvas.trails = <<>> /\ canvas.markers = <<>> /\ canvas.labels = <<>>
          /\ ~last[1].env.showPitch => canvas.dots = <<>> /\ canvas.edges = <<>>

(* the latest draw is the one of "Assign Teams", made with the empty       *)
(* detection list of the render the click happened in, after detections    *)
(* of the current frame were loaded: it left no marker                     *)
C17_Witness ==
    /\ last # <<>>
    /\ last[1].env.detections = <<>>
    /\ \E k \in 1..Len(detections) : detections[k].frame_id = last[1].t
    /\ tracksMap # NoTracks
    /\ canvas.markers = <<>>

(* a video element with the frame index and the scale factors of v only:   *)
(* its time is the middle of the frame, its sizes are the numerators and   *)
(* denominators of the scale factors in lowest terms                       *)
FrameAndScale(v) ==
    LET vw == IF v.videoWidth # 0 THEN v.videoWidth ELSE v.clientWidth
        vh == IF v.videoHeight # 0 THEN v.videoHeight ELSE v.clientHeight
        gw == Gcd(v.clientWidth, vw)
        gh == Gcd(v.clientHeight, vh)
    IN  [currentTime |-> frameIndex(v.currentTime) * (1000 \div FPS) + 500 \div FPS,
         videoWidth   |-> IF gw = 0 THEN 0 ELSE vw \div gw,
         videoHeight  |-> IF gh = 0 THEN 0 ELSE vh \div gh,
         clientWidth  |-> IF gw = 0 THEN 0 ELSE v.clientWidth \div gw,
         clientHeight |-> IF gh = 0 THEN 0 ELSE v.clientHeight \div gh]

(* C18: the surface after a draw is a function of the frame index, the     *)
(* detection list, the track map, the homography segments, the pitch       *)
(* toggle and the scale factors alone; a draw with the inputs of the       *)
(* previous draw leaves the surface as it is; and a draw on a video event  *)
(* changes none of the lists, the map or the toggle.                       *)
C18_DrawIsPure ==
    /\ [](last # <<>> =>
            canvas = drawBoxes(FrameAndScale(last[1].video), last[1].env).canvas)
    /\ [][last' = last => canvas' = canvas]_vars
    /\ [][video' # video =>
            UNCHANGED <<detections, tracksMap, homography, showPitch>>]_vars

(* a draw that produced skeleton, trail, marker and label *)
C18_Witness ==
    /\ last # <<>>
    /\ Len(canvas.dots) > 0
    /\ Len(canvas.trails) = 1
    /\ Len(canvas.markers) = 1
    /\ Len(canvas.labels) = 1

(* C19: after toggling the pitch overlay or loading homography data the    *)
(* surface is the one a draw of the state after the action produces (the   *)
(* new toggle value, the newly loaded segments).  The statement fails: the *)
(* toggle handler draws with the toggle value of the render it was created *)
(* in, and loadHomography only stores the segments.                        *)
C19_UserActionRedraws ==
    [][(showPitch' # showPitch \/ homography' # homography) =>
          canvas' = drawBoxes(video', Env(detections', tracksMap', homography', showPitch')).canvas
      ]_vars

(* the horizontal centre of a marker *)
MarkerCentreX(m) == IF m.shape = "ellipse" THEN m.cx ELSE m.p3[1]

(* C20: in every draw each detection of the current frame gets one marker  *)
(* and one label, placed on its own scaled box, in list order, whatever    *)
(* the track map and the homography data are: without team assignment,     *)
(* without covering segment or with a segment the skeleton cannot use.     *)
C20_EveryDetectionDrawn ==
    last # <<>> =>
        LET cur == CurrentDetections(last[1])
        IN  /\ Len(canvas.markers) = Len(cur)
            /\ Len(canvas.labels) = Len(cur)
            /\ \A k \in 1..Len(cur) :
                  LET b == ScaledBox(cur[k], last[1].video)
                  IN  /\ MarkerCentreX(canvas.markers[k]) = DAdd(b.x, DDiv(b.w, DNum(2)))
                      /\ canvas.labels[k].x = DAdd(b.x, DNum(2))
                      /\ canvas.labels[k].text =
                            (IF cur[k].object_id = NullId THEN <<>>
                             ELSE <<"#", cur[k].object_id>>)

(* two detections drawn although one has no team assignment and no segment *)
(* covers the frame of the enabled pitch overlay                           *)
C20_Witness ==
    /\ last # <<>>
    /\ Len(canvas.markers) = 2
    /\ Len(canvas.labels) = 2
    /\ \E k \in 1..2 : CurrentDetections(last[1])[k].object_id \notin DOMAIN last[1].env.tracksMap
    /\ \E k \in 1..2 : CurrentDetections(last[1])[k].object_id \in DOMAIN last[1].env.tracksMap
    /\ last[1].env.showPitch
    /\ Len(last[1].env.homography) > 0
    /\ last[1].seg = <<>>

(* C22: the analytics endpoints are requested for a job only in the step   *)
(* in which a poll of that job has returned status finished; a poller      *)
(* waiting for them has observed finished, and no match whose job is       *)
(* queued, running, failed, stopped or canceled has had them requested.    *)
C22_AnalyticsAfterFinished ==
    /\ [](\A m \in analyticsReq : jobStatus[m] = "finished")
    /\ [](\A who \in {"resume", "upload"} :
             poll[who].pc = "analytics" => poll[who].s = "finished")
    /\ [][\A m \in analyticsReq' \ analyticsReq :
             \E who \in {"resume", "upload"} :
                 /\ poll[who].pc = "fetch"
                 /\ poll'[who].pc = "analytics"
                 /\ poll'[who].s = "finished"
                 /\ poll'[who].job[1].match_id = m]_vars

(* analytics requested for the finished job 1 and not for the failed job 2 *)
C22_Witness ==
    /\ analyticsReq = {1}
    /\ jobStatus[1] = "finished"
    /\ jobStatus[2] \in {"failed", "stopped", "canceled"}
    /\ \E who \in {"resume", "upload"} :
          /\ poll[who].pc = "thrown"
          /\ poll[who].s = jobStatus[2]
          /\ poll[who].job = <<Job(2)>>

(* the jobs of the store that the backend has not brought to an end *)
PendingInStore == {k \in 1..Len(store) : jobStatus[store[k].job_id] \in {"queued", "running"}}

Polling(who) == poll[who].pc \in {"fetch", "sleep", "analytics"}

(* job j is still in the store after the step, or the step is the one in   *)
(* which a pollJob run of j handles a terminal status                      *)
StaysOrHandled(j) ==
    \/ \E k \in 1..Len(store') : store'[k] = j
    \/ \E who \in {"resume", "upload"} :
          /\ poll[who].job = <<j>>
          /\ \/ /\ poll[who].pc = "fetch"
                /\ poll'[who].pc = "thrown"
                /\ poll'[who].s \in {"failed", "stopped", "canceled"}
             \/ /\ poll[who].pc = "analytics"
                /\ poll[who].s = "finished"
                /\ poll'[who].pc = "returned"

(* C23 as stated: a job enqueued by an upload is in the store while its    *)
(* pollJob runs and leaves it only when a terminal status is handled, and  *)
(* when the page is loaded while the job is still pending the page resumes *)
(* polling that job and names it in the banner.  The statement fails when  *)
(* a later upload has stored a second job: only the latest job is resumed. *)
C23_ResumeEveryPendingJob ==
    /\ [][\A k \in 1..Len(store) : StaysOrHandled(store[k])]_vars
    /\ [](Polling("upload") => \E k \in 1..Len(store) : <<store[k]>> = poll["upload"].job)
    /\ [][(page = "closed" /\ page' = "open") =>
             \A k \in PendingInStore :
                 /\ poll'["resume"].pc = "fetch"
                 /\ poll'["resume"].job = <<store[k]>>
                 /\ activeJob' = <<store[k]>>]_vars

(* C23, amended: as above, but the page resumes the most recently stored   *)
(* job only, whatever else is pending (nothing when the store is empty),   *)
(* and the progress of the polled job is written to currentStep.           *)
C23_ResumeLatestJob ==
    /\ [][\A k \in 1..Len(store) : StaysOrHandled(store[k])]_vars
    /\ [](Polling("upload") => \E k \in 1..Len(store) : <<store[k]>> = poll["upload"].job)
    /\ [][(page = "closed" /\ page' = "open") =>
             IF Len(store) = 0
             THEN poll'["resume"].pc = "idle" /\ activeJob' = <<>>
             ELSE /\ poll'["resume"].pc = "fetch"
                  /\ poll'["resume"].job = <<store[Len(store)]>>
                  /\ activeJob' = <<store[Len(store)]>>]_vars
    /\ [][\A who \in {"resume", "upload"} :
             (poll[who].pc = "fetch" /\ poll'[who].pc = "sleep") =>
                 /\ poll'[who].s = jobStatus[poll[who].job[1].job_id]
                 /\ currentStep' = <<IF poll'[who].s = "running" THEN 50 ELSE 0, poll'[who].s>>]_vars

(* the page was loaded with two pending jobs in the store: the later one   *)
(* is polled and its progress shown, the earlier one is not polled         *)
C23_Witness ==
    /\ page = "open"
    /\ store = <<Job(1), Job(2)>>
    /\ jobStatus[1] \in {"queued", "running"}
    /\ poll["resume"].pc = "sleep"
    /\ poll["resume"].job = <<Job(2)>>
    /\ currentStep = <<50, "running">>
    /\ poll["upload"].pc = "idle"

Ended(who) == poll[who].pc \in {"returned", "thrown"}

(* a pollJob run ends in this step only on a terminal status: after the    *)
(* response finished and onFinished, or on failed, stopped or canceled     *)
EndsOnTerminalOnly(who) ==
    (Polling(who) /\ poll'[who].pc \in {"returned", "thrown"}) =>
        \/ poll[who].pc = "analytics" /\ poll[who].s = "finished"
        \/ /\ poll[who].pc = "fetch"
           /\ poll'[who].pc = "thrown"
           /\ poll'[who].s \in {"failed", "stopped", "canceled"}

(* C24 as stated: when every status request succeeds and the job reaches a *)
(* terminal status, pollJob eventually ends, returning on finished and     *)
(* throwing on failed, stopped and canceled; on a non-terminal status it   *)
(* goes on polling.  The statement fails: pollJob also throws on finished, *)
(* when onFinished rejects.                                                *)
C24_ReturnsOnFinished ==
    /\ \A who \in {"resume", "upload"} : Polling(who) ~> ~Polling(who)
    /\ [](\A who \in {"resume", "upload"} :
             Ended(who) =>
                 /\ poll[who].s = "finished" => poll[who].pc = "returned"
                 /\ poll[who].s \in {"failed", "stopped", "canceled"} => poll[who].pc = "thrown")
    /\ [][\A who \in {"resume", "upload"} : EndsOnTerminalOnly(who)]_vars

(* C24, amended: pollJob eventually ends (or goes with the page); it       *)
(* returns only on finished, after onFinished succeeded, and throws on     *)
(* failed, stopped and canceled and on finished when onFinished rejects;   *)
(* on a non-terminal status it goes on polling.                            *)
C24_PollingTerminates ==
    /\ \A who \in {"resume", "upload"} : Polling(who) ~> ~Polling(who)
    /\ [](\A who \in {"resume", "upload"} :
             Ended(who) =>
                 /\ poll[who].pc = "returned" => poll[who].s = "finished"
                 /\ poll[who].s \in {"failed", "stopped", "canceled"} => poll[who].pc = "thrown"
                 /\ poll[who].s \in {"finished", "failed", "stopped", "canceled"})
    /\ [][\A who \in {"resume", "upload"} : EndsOnTerminalOnly(who)]_vars

(* one pollJob run has returned after several polls of a job that finished *)
(* and another has thrown on finished because onFinished rejected          *)
C24_Witness ==
    /\ poll["upload"].pc = "returned"
    /\ poll["upload"].s = "finished"
    /\ poll["resume"].pc = "thrown"
    /\ poll["resume"].s = "finished"

(* C25: when Assign Teams succeeds with a changed track map, the markers   *)
(* its redraw leaves on the canvas are those of a draw with the newly      *)
(* fetched track map.  The statement fails: the handler calls the          *)
(* drawBoxes of the render it was created in, which reads the track map    *)
(* of before the action.                                                   *)
C25_AssignRedrawUsesNewTracks ==
    [][(loadingAssign /\ ~loadingAssign' /\ tracksMap' # tracksMap) =>
          canvas'.markers =
              drawBoxes(video, [assignEnv EXCEPT !.tracksMap = tracksMap']).canvas.markers]_vars

(* the entries of a series at or before a frame, and the one of them with  *)
(* the largest frame_id                                                    *)
AtOrBefore(series, frame) == { i \in DOMAIN series : series[i].frame_id <= frame }

MostRecent(series, frame) ==
    CHOOSE i \in AtOrBefore(series, frame) :
        \A j \in AtOrBefore(series, frame) : series[j].frame_id <= series[i].frame_id

(* C26: the control-zone and momentum figures shown for a current frame    *)
(* are the rounded values of the entry with the largest frame_id at or     *)
(* before that frame, whatever the order of the series, and 0 and 0 when   *)
(* there is no such entry.  The statement fails: the code takes the entry  *)
(* that comes last in the series among those at or before the frame.       *)
C26_StatsOfMostRecentFrame ==
    (apc = "shown" /\ panel.kind = "analytics") =>
        /\ controlZoneData # <<>> =>
              panel.controlZones = <<
                  IF AtOrBefore(controlZoneData[1].series, currentFrame) = {} THEN ZeroStats
                  ELSE LET e == controlZoneData[1].series[
                                    MostRecent(controlZoneData[1].series, currentFrame)]
                       IN  [team1 |-> MathRound(e.team1_area_pct),
                            team2 |-> MathRound(e.team2_area_pct)] >>
        /\ momentumData # <<>> =>
              panel.momentum = <<
                  IF AtOrBefore(momentumData[1].series, currentFrame) = {} THEN ZeroStats
                  ELSE LET e == momentumData[1].series[
                                    MostRecent(momentumData[1].series, currentFrame)]
                       IN  [team1 |-> MathRound(e.team1_momentum),
                            team2 |-> MathRound(e.team2_momentum)] >>

(* C27: when a pollJob run that observed the status finished has ended,    *)
(* by returning or by throwing, its job is no longer in the pending-job    *)
(* store.  The statement fails: removeJob comes after the await of         *)
(* onFinished, so it is skipped when onFinished rejects.                   *)
C27_FinishedJobRemoved ==
    \A who \in {"resume", "upload"} :
        (Ended(who) /\ poll[who].s = "finished") =>
            \A i \in DOMAIN store : store[i].job_id # poll[who].job[1].job_id

(* C28: while the page is open the banner names a job exactly when the     *)
(* pending-job store is non-empty, and the job it names is the latest one  *)
(* of the store.  The statement fails: activeJob is set from the store     *)
(* once, when the page is loaded, and neither an upload nor the removal    *)
(* of a job sets it afterwards.                                            *)
C28_BannerTracksStore ==
    page = "open" => activeJob = latestJob(store)

(* a handleUpload run ends in this step, the page staying open *)
UploadExits == upload.pc # "idle" /\ upload'.pc = "idle" /\ page' = "open"

(* the run that ends in this step ends in its catch block: the upload or   *)
(* the enqueue was rejected or failed, or pollJob threw                    *)
UploadFails == upload.pc \in {"ingest", "enqueue"} \/ poll'["upload"].pc = "thrown"

(* C29: uploading is true exactly while a handleUpload run is in progress; *)
(* every way out of the run resets it; a failing way out leaves a          *)
(* non-empty uploadError, and when the job was reported failed, stopped or *)
(* canceled the job is no longer in the pending-job store.                 *)
C29_UploadingWhileInProgress ==
    /\ [](uploading <=> upload.pc # "idle")
    /\ [][UploadExits =>
             /\ ~uploading'
             /\ UploadFails => uploadError' # ""
             /\ ~UploadFails => uploadError' = ""
             /\ (upload.pc = "polling" /\ poll'["upload"].s \in {"failed", "stopped", "canceled"}) =>
                   /\ UploadFails
                   /\ \A i \in DOMAIN store' :
                         store'[i].job_id # poll'["upload"].job[1].job_id]_vars

(* a handleUpload run has ended because its job was canceled: the flag is  *)
(* reset, the error is shown and the job is gone from the store            *)
C29_Witness ==
    /\ page = "open"
    /\ upload.pc = "idle"
    /\ ~uploading
    /\ poll["upload"].pc = "thrown"
    /\ poll["upload"].s = "canceled"
    /\ uploadError = "Job failed"
    /\ store = <<>>

(* C30: the poll resumed when the page was loaded and the poll started by  *)
(* an upload are never active together, so at most one pollJob run writes  *)
(* currentStep.  The statement fails: the upload form stays usable while   *)
(* the resumed poll runs.                                                  *)
C30_OnePollingLoop ==
    ~(Polling("resume") /\ Polling("upload"))

=============================================================================
